---- MODULE Spec2Model ----
(***************************************************************************)
(* Negative-to-positive film conversion (free_film_lab).                   *)
(*                                                                         *)
(* The model follows utils/imageProcessing: negativeConverter.ts           *)
(* (convertNegativeToPositive) and adjustments.ts (applyNoiseReduction,    *)
(* adjustChannelCurve, applySCurve), with rgbToHsl / hslToRgb taken from   *)
(* imageProcessing.ts.                                                     *)
(*                                                                         *)
(* Numbers.  The source computes on IEEE doubles.  Here a number is a      *)
(* rational <<n, d>> in lowest terms with d > 0.  A result whose           *)
(* denominator exceeds MaxTerm is rounded to the last convergent of its    *)
(* continued fraction with a denominator within MaxTerm, as a double is    *)
(* rounded to its mantissa; only the HSL adjustment of stage 5 (newH, newS,*)
(* newL and hslToRgb) produces such results.  The values the pipeline      *)
(* compares (the stage-5 gates, the hue window) have denominators of at    *)
(* most 5100 and are exact.  Math.pow and Math.exp are tabulated on the    *)
(* grid of tenths, which contains every value stages 2 and 3 can hand to a *)
(* curve for the opacities enumerated.                                     *)
(*                                                                         *)
(* Pixel buffers are byte arrays, functions on 0..len-1, addressed exactly *)
(* as the source addresses them (i, i+1, i+2, i+3; idx - width*4 + c).     *)
(* They live in a heap indexed by buffer identity, so that aliasing        *)
(* between the caller's buffer and the buffers of the conversion shows.    *)
(***************************************************************************)
EXTENDS Integers, Sequences, FiniteSets, Bags, TLC

VARIABLES
  heap,          \* buffer identity -> byte array
  image,         \* the caller's ImageData: [width, height, data (identity)]
  entry,         \* contents of the caller's buffer when the call was made
  pc,            \* "idle" | "returned" | "threw" | "rejected" | "filtered"
                 \* | "sized"
  options,       \* the options of the convertNegativeToPositive call
  ctxOk,         \* whether canvas.getContext('2d') returned a context
  result,        \* <<the ImageData returned>>, or <<>>
  filmBaseColor, \* <<the local filmBaseColor after lines 48-91>>, or <<>>
  sampled,       \* coordinates read by ctx.getImageData(x, y, 1, 1), in order
  divisions,     \* number of divisions by sampleCount performed
  nrStrength,    \* strength of the applyNoiseReduction call, or <<>>
  noiseCalls,    \* strengths convertNegativeToPositive passed to
                 \* applyNoiseReduction, in order
  call,          \* a call of one of the other functions: [fn, args], or <<>>
  ret,           \* the values returned for `call`, in order
  ui,            \* the mounted component: "hook" (useImageProcessing),
                 \* "page" (routes/_index.tsx) or "none"
  originalImage,       \* <<>> (null) or <<the data URL>>
  processedImage,      \* <<>> (null), <<"url", u>> or <<"converted", u, opts>>
  processingType,      \* "none" | "negative-conversion"
  isProcessing,
  useBorderSampling,
  useManualSelection,
  isColorPickerActive,
  conversionOptions,   \* [filmBaseColor]; the other fields are not changed
  effectDue,     \* a dependency of the processing effect changed in the last
                 \* render and the effect has not run yet
  pending,       \* the processImage calls that have not settled: a bag
  timers,        \* the setTimeout callbacks of handleColorPickerComplete,
                 \* in the order they were set
  \* useDownloadManager
  isDownloading,
  downloadProgress,
  downloads      \* the downloads whose timers have not all fired, in the
                 \* order they were started: [timer, interval]

uiVars == <<ui, originalImage, processedImage, processingType, isProcessing,
            useBorderSampling, useManualSelection, isColorPickerActive,
            conversionOptions, effectDue, pending, timers>>

dlVars == <<isDownloading, downloadProgress, downloads>>

vars == <<heap, image, entry, pc, options, ctxOk, result, filmBaseColor,
          sampled, divisions, nrStrength, noiseCalls, call, ret, uiVars,
          dlVars>>

\* The useState initial values (hook lines 13-21, page lines 16-30); 0 names
\* the initial filmBaseColor { r: 220, g: 150, b: 130 }.
InitialState ==
  /\ originalImage = <<>>
  /\ processedImage = <<>>
  /\ processingType = "none"
  /\ isProcessing = FALSE
  /\ useBorderSampling = FALSE
  /\ useManualSelection = FALSE
  /\ isColorPickerActive = FALSE
  /\ conversionOptions = [filmBaseColor |-> 0]
  /\ pending = EmptyBag
  /\ timers = <<>>
  /\ isDownloading = FALSE
  /\ downloadProgress = <<0, 1>>
  /\ downloads = <<>>

\* No component is mounted.
Unmounted == ui = "none" /\ effectDue = FALSE /\ InitialState

-----------------------------------------------------------------------------
(* Arithmetic *)

Max(a, b) == IF a > b THEN a ELSE b
Min(a, b) == IF a < b THEN a ELSE b
Abs(a) == IF a < 0 THEN -a ELSE a

RECURSIVE Gcd(_, _)
Gcd(a, b) == IF b = 0 THEN a ELSE Gcd(b, a % b)

\* n/d (d > 0) in lowest terms.
Reduce(n, d, g) == <<n \div g, d \div g>>
Lowest(n, d) == Reduce(n, d, Gcd(Abs(n), d))

\* The largest denominator a number keeps.
MaxTerm == 20000

\* The last convergent of the continued fraction of n/d (n >= 0, d > 0)
\* whose denominator is within MaxTerm; h1/k1 and h0/k0 are the two
\* convergents before the current one.
RECURSIVE Convergent(_, _, _, _, _, _)
Convergent(n, d, h1, k1, h0, k0) ==
  IF (n \div d) * k1 + k0 > MaxTerm
    THEN <<h1, k1>>
  ELSE IF n % d = 0
    THEN <<(n \div d) * h1 + h0, (n \div d) * k1 + k0>>
  ELSE Convergent(d, n % d, (n \div d) * h1 + h0, (n \div d) * k1 + k0, h1, k1)

\* Rounding of a number to one whose denominator is within MaxTerm.
Negated(a) == <<-a[1], a[2]>>
Fit(n, d) ==
  IF n < 0 THEN Negated(Convergent(-n, d, 1, 0, 0, 1))
  ELSE Convergent(n, d, 1, 0, 0, 1)
Fitted(e) ==
  IF e[2] <= MaxTerm THEN e ELSE Fit(e[1], e[2])

\* The number n/d (d # 0).
Rat(n, d) ==
  IF d = 1 THEN <<n, 1>>
  ELSE Fitted(Lowest(IF d < 0 THEN -n ELSE n, Abs(d)))

Num(k) == <<k, 1>>
Zero == Num(0)
One == Num(1)
Half == <<1, 2>>

\* a + b over the least common denominator; g is gcd of the denominators.
RAddOver(a, b, g) ==
  Rat(a[1] * (b[2] \div g) + b[1] * (a[2] \div g), (a[2] \div g) * b[2])
RAdd(a, b) == RAddOver(a, b, Gcd(a[2], b[2]))
RNeg(a) == <<-a[1], a[2]>>
RSub(a, b) == RAdd(a, RNeg(b))
RMul(a, b) == Rat(a[1] * b[1], a[2] * b[2])
RDiv(a, b) == Rat(a[1] * b[2], a[2] * b[1])
RLt(a, b) == a[1] * b[2] < b[1] * a[2]
RGt(a, b) == RLt(b, a)
RMax(a, b) == IF RLt(a, b) THEN b ELSE a
RMin(a, b) == IF RLt(b, a) THEN b ELSE a
RAbs(a) == <<Abs(a[1]), a[2]>>
Floor(a) == a[1] \div a[2]

\* Math.round: the nearest integer, ties towards +Infinity.
MathRound(a) == (2 * a[1] + a[2]) \div (2 * a[2])

\* a * k for an integer k, kept as it is for the Math.round that follows.
Scaled(a, k) == <<a[1] * k, a[2]>>

\* Storing a number in a Uint8ClampedArray (ToUint8Clamp): clamp to
\* [0, 255], round to nearest, ties to the even integer.
ToUint8Clamp(a) ==
  LET f == Floor(a)
      twice == 2 * (a[1] - f * a[2])
      r == IF twice < a[2] THEN f
           ELSE IF twice > a[2] THEN f + 1
           ELSE IF f % 2 = 0 THEN f ELSE f + 1
  IN Max(0, Min(255, r))

-----------------------------------------------------------------------------
(* Math.pow and Math.exp, tabulated *)

\* Math.round(Math.pow(v / 255, 1 / 0.73) * 255) for v = k/10, k = 0..2550
\* (entry k+1); 0.73 = 0.9 * 0.7 + 0.1.
PowTable73 ==
  <<
    0, 0, 0, 0, 0, 0, 0, 0, 0, 0, 0, 0, 0, 0, 0, 0, 0, 0, 0, 0, 0, 0, 0, 0, 0,
    0, 0, 1, 1, 1, 1, 1, 1, 1, 1, 1, 1, 1, 1, 1, 1, 1, 1, 1, 1, 1, 1, 1, 1, 1,
    1, 1, 1, 1, 1, 1, 1, 1, 1, 1, 1, 2, 2, 2, 2, 2, 2, 2, 2, 2, 2, 2, 2, 2, 2,
    2, 2, 2, 2, 2, 2, 2, 2, 2, 2, 2, 2, 2, 3, 3, 3, 3, 3, 3, 3, 3, 3, 3, 3, 3,
    3, 3, 3, 3, 3, 3, 3, 3, 3, 3, 3, 3, 4, 4, 4, 4, 4, 4, 4, 4, 4, 4, 4, 4, 4,
    4, 4, 4, 4, 4, 4, 4, 4, 4, 5, 5, 5, 5, 5, 5, 5, 5, 5, 5, 5, 5, 5, 5, 5, 5,
    5, 5, 5, 5, 5, 6, 6, 6, 6, 6, 6, 6, 6, 6, 6, 6, 6, 6, 6, 6, 6, 6, 6, 6, 6,
    6, 7, 7, 7, 7, 7, 7, 7, 7, 7, 7, 7, 7, 7, 7, 7, 7, 7, 7, 7, 8, 8, 8, 8, 8,
    8, 8, 8, 8, 8, 8, 8, 8, 8, 8, 8, 8, 8, 9, 9, 9, 9, 9, 9, 9, 9, 9, 9, 9, 9,
    9, 9, 9, 9, 9, 9, 10, 10, 10, 10, 10, 10, 10, 10, 10, 10, 10, 10, 10, 10, 10, 10, 10, 10, 11,
    11, 11, 11, 11, 11, 11, 11, 11, 11, 11, 11, 11, 11, 11, 11, 11, 12, 12, 12, 12, 12, 12, 12, 12, 12,
    12, 12, 12, 12, 12, 12, 12, 12, 13, 13, 13, 13, 13, 13, 13, 13, 13, 13, 13, 13, 13, 13, 13, 13, 14,
    14, 14, 14, 14, 14, 14, 14, 14, 14, 14, 14, 14, 14, 14, 14, 15, 15, 15, 15, 15, 15, 15, 15, 15, 15,
    15, 15, 15, 15, 15, 15, 16, 16, 16, 16, 16, 16, 16, 16, 16, 16, 16, 16, 16, 16, 16, 17, 17, 17, 17,
    17, 17, 17, 17, 17, 17, 17, 17, 17, 17, 17, 18, 18, 18, 18, 18, 18, 18, 18, 18, 18, 18, 18, 18, 18,
    18, 19, 19, 19, 19, 19, 19, 19, 19, 19, 19, 19, 19, 19, 19, 19, 20, 20, 20, 20, 20, 20, 20, 20, 20,
    20, 20, 20, 20, 20, 21, 21, 21, 21, 21, 21, 21, 21, 21, 21, 21, 21, 21, 21, 21, 22, 22, 22, 22, 22,
    22, 22, 22, 22, 22, 22, 22, 22, 22, 23, 23, 23, 23, 23, 23, 23, 23, 23, 23, 23, 23, 23, 23, 24, 24,
    24, 24, 24, 24, 24, 24, 24, 24, 24, 24, 24, 24, 25, 25, 25, 25, 25, 25, 25, 25, 25, 25, 25, 25, 25,
    26, 26, 26, 26, 26, 26, 26, 26, 26, 26, 26, 26, 26, 26, 27, 27, 27, 27, 27, 27, 27, 27, 27, 27, 27,
    27, 27, 28, 28, 28, 28, 28, 28, 28, 28, 28, 28, 28, 28, 28, 29, 29, 29, 29, 29, 29, 29, 29, 29, 29,
    29, 29, 29, 29, 30, 30, 30, 30, 30, 30, 30, 30, 30, 30, 30, 30, 30, 31, 31, 31, 31, 31, 31, 31, 31,
    31, 31, 31, 31, 31, 32, 32, 32, 32, 32, 32, 32, 32, 32, 32, 32, 32, 33, 33, 33, 33, 33, 33, 33, 33,
    33, 33, 33, 33, 33, 34, 34, 34, 34, 34, 34, 34, 34, 34, 34, 34, 34, 34, 35, 35, 35, 35, 35, 35, 35,
    35, 35, 35, 35, 35, 36, 36, 36, 36, 36, 36, 36, 36, 36, 36, 36, 36, 37, 37, 37, 37, 37, 37, 37, 37,
    37, 37, 37, 37, 37, 38, 38, 38, 38, 38, 38, 38, 38, 38, 38, 38, 38, 39, 39, 39, 39, 39, 39, 39, 39,
    39, 39, 39, 39, 40, 40, 40, 40, 40, 40, 40, 40, 40, 40, 40, 40, 41, 41, 41, 41, 41, 41, 41, 41, 41,
    41, 41, 41, 42, 42, 42, 42, 42, 42, 42, 42, 42, 42, 42, 42, 43, 43, 43, 43, 43, 43, 43, 43, 43, 43,
    43, 43, 44, 44, 44, 44, 44, 44, 44, 44, 44, 44, 44, 45, 45, 45, 45, 45, 45, 45, 45, 45, 45, 45, 45,
    46, 46, 46, 46, 46, 46, 46, 46, 46, 46, 46, 46, 47, 47, 47, 47, 47, 47, 47, 47, 47, 47, 47, 48, 48,
    48, 48, 48, 48, 48, 48, 48, 48, 48, 48, 49, 49, 49, 49, 49, 49, 49, 49, 49, 49, 49, 50, 50, 50, 50,
    50, 50, 50, 50, 50, 50, 50, 51, 51, 51, 51, 51, 51, 51, 51, 51, 51, 51, 51, 52, 52, 52, 52, 52, 52,
    52, 52, 52, 52, 52, 53, 53, 53, 53, 53, 53, 53, 53, 53, 53, 53, 54, 54, 54, 54, 54, 54, 54, 54, 54,
    54, 54, 55, 55, 55, 55, 55, 55, 55, 55, 55, 55, 55, 56, 56, 56, 56, 56, 56, 56, 56, 56, 56, 56, 57,
    57, 57, 57, 57, 57, 57, 57, 57, 57, 57, 58, 58, 58, 58, 58, 58, 58, 58, 58, 58, 58, 59, 59, 59, 59,
    59, 59, 59, 59, 59, 59, 59, 60, 60, 60, 60, 60, 60, 60, 60, 60, 60, 60, 61, 61, 61, 61, 61, 61, 61,
    61, 61, 61, 62, 62, 62, 62, 62, 62, 62, 62, 62, 62, 62, 63, 63, 63, 63, 63, 63, 63, 63, 63, 63, 63,
    64, 64, 64, 64, 64, 64, 64, 64, 64, 64, 65, 65, 65, 65, 65, 65, 65, 65, 65, 65, 65, 66, 66, 66, 66,
    66, 66, 66, 66, 66, 66, 67, 67, 67, 67, 67, 67, 67, 67, 67, 67, 67, 68, 68, 68, 68, 68, 68, 68, 68,
    68, 68, 69, 69, 69, 69, 69, 69, 69, 69, 69, 69, 69, 70, 70, 70, 70, 70, 70, 70, 70, 70, 70, 71, 71,
    71, 71, 71, 71, 71, 71, 71, 71, 72, 72, 72, 72, 72, 72, 72, 72, 72, 72, 72, 73, 73, 73, 73, 73, 73,
    73, 73, 73, 73, 74, 74, 74, 74, 74, 74, 74, 74, 74, 74, 75, 75, 75, 75, 75, 75, 75, 75, 75, 75, 76,
    76, 76, 76, 76, 76, 76, 76, 76, 76, 77, 77, 77, 77, 77, 77, 77, 77, 77, 77, 78, 78, 78, 78, 78, 78,
    78, 78, 78, 78, 79, 79, 79, 79, 79, 79, 79, 79, 79, 79, 79, 80, 80, 80, 80, 80, 80, 80, 80, 80, 81,
    81, 81, 81, 81, 81, 81, 81, 81, 81, 82, 82, 82, 82, 82, 82, 82, 82, 82, 82, 83, 83, 83, 83, 83, 83,
    83, 83, 83, 83, 84, 84, 84, 84, 84, 84, 84, 84, 84, 84, 85, 85, 85, 85, 85, 85, 85, 85, 85, 85, 86,
    86, 86, 86, 86, 86, 86, 86, 86, 86, 87, 87, 87, 87, 87, 87, 87, 87, 87, 88, 88, 88, 88, 88, 88, 88,
    88, 88, 88, 89, 89, 89, 89, 89, 89, 89, 89, 89, 89, 90, 90, 90, 90, 90, 90, 90, 90, 90, 90, 91, 91,
    91, 91, 91, 91, 91, 91, 91, 92, 92, 92, 92, 92, 92, 92, 92, 92, 92, 93, 93, 93, 93, 93, 93, 93, 93,
    93, 94, 94, 94, 94, 94, 94, 94, 94, 94, 94, 95, 95, 95, 95, 95, 95, 95, 95, 95, 96, 96, 96, 96, 96,
    96, 96, 96, 96, 96, 97, 97, 97, 97, 97, 97, 97, 97, 97, 98, 98, 98, 98, 98, 98, 98, 98, 98, 98, 99,
    99, 99, 99, 99, 99, 99, 99, 99, 100, 100, 100, 100, 100, 100, 100, 100, 100, 100, 101, 101, 101, 101, 101, 101, 101,
    101, 101, 102, 102, 102, 102, 102, 102, 102, 102, 102, 103, 103, 103, 103, 103, 103, 103, 103, 103, 103, 104, 104, 104, 104,
    104, 104, 104, 104, 104, 105, 105, 105, 105, 105, 105, 105, 105, 105, 106, 106, 106, 106, 106, 106, 106, 106, 106, 106, 107,
    107, 107, 107, 107, 107, 107, 107, 107, 108, 108, 108, 108, 108, 108, 108, 108, 108, 109, 109, 109, 109, 109, 109, 109, 109,
    109, 110, 110, 110, 110, 110, 110, 110, 110, 110, 111, 111, 111, 111, 111, 111, 111, 111, 111, 111, 112, 112, 112, 112, 112,
    112, 112, 112, 112, 113, 113, 113, 113, 113, 113, 113, 113, 113, 114, 114, 114, 114, 114, 114, 114, 114, 114, 115, 115, 115,
    115, 115, 115, 115, 115, 115, 116, 116, 116, 116, 116, 116, 116, 116, 116, 117, 117, 117, 117, 117, 117, 117, 117, 117, 118,
    118, 118, 118, 118, 118, 118, 118, 118, 119, 119, 119, 119, 119, 119, 119, 119, 119, 120, 120, 120, 120, 120, 120, 120, 120,
    120, 121, 121, 121, 121, 121, 121, 121, 121, 121, 122, 122, 122, 122, 122, 122, 122, 122, 122, 123, 123, 123, 123, 123, 123,
    123, 123, 123, 124, 124, 124, 124, 124, 124, 124, 124, 125, 125, 125, 125, 125, 125, 125, 125, 125, 126, 126, 126, 126, 126,
    126, 126, 126, 126, 127, 127, 127, 127, 127, 127, 127, 127, 127, 128, 128, 128, 128, 128, 128, 128, 128, 128, 129, 129, 129,
    129, 129, 129, 129, 129, 130, 130, 130, 130, 130, 130, 130, 130, 130, 131, 131, 131, 131, 131, 131, 131, 131, 131, 132, 132,
    132, 132, 132, 132, 132, 132, 132, 133, 133, 133, 133, 133, 133, 133, 133, 134, 134, 134, 134, 134, 134, 134, 134, 134, 135,
    135, 135, 135, 135, 135, 135, 135, 135, 136, 136, 136, 136, 136, 136, 136, 136, 137, 137, 137, 137, 137, 137, 137, 137, 137,
    138, 138, 138, 138, 138, 138, 138, 138, 138, 139, 139, 139, 139, 139, 139, 139, 139, 140, 140, 140, 140, 140, 140, 140, 140,
    140, 141, 141, 141, 141, 141, 141, 141, 141, 142, 142, 142, 142, 142, 142, 142, 142, 142, 143, 143, 143, 143, 143, 143, 143,
    143, 144, 144, 144, 144, 144, 144, 144, 144, 144, 145, 145, 145, 145, 145, 145, 145, 145, 146, 146, 146, 146, 146, 146, 146,
    146, 146, 147, 147, 147, 147, 147, 147, 147, 147, 148, 148, 148, 148, 148, 148, 148, 148, 148, 149, 149, 149, 149, 149, 149,
    149, 149, 150, 150, 150, 150, 150, 150, 150, 150, 150, 151, 151, 151, 151, 151, 151, 151, 151, 152, 152, 152, 152, 152, 152,
    152, 152, 152, 153, 153, 153, 153, 153, 153, 153, 153, 154, 154, 154, 154, 154, 154, 154, 154, 155, 155, 155, 155, 155, 155,
    155, 155, 155, 156, 156, 156, 156, 156, 156, 156, 156, 157, 157, 157, 157, 157, 157, 157, 157, 158, 158, 158, 158, 158, 158,
    158, 158, 158, 159, 159, 159, 159, 159, 159, 159, 159, 160, 160, 160, 160, 160, 160, 160, 160, 161, 161, 161, 161, 161, 161,
    161, 161, 162, 162, 162, 162, 162, 162, 162, 162, 162, 163, 163, 163, 163, 163, 163, 163, 163, 164, 164, 164, 164, 164, 164,
    164, 164, 165, 165, 165, 165, 165, 165, 165, 165, 166, 166, 166, 166, 166, 166, 166, 166, 166, 167, 167, 167, 167, 167, 167,
    167, 167, 168, 168, 168, 168, 168, 168, 168, 168, 169, 169, 169, 169, 169, 169, 169, 169, 170, 170, 170, 170, 170, 170, 170,
    170, 171, 171, 171, 171, 171, 171, 171, 171, 172, 172, 172, 172, 172, 172, 172, 172, 173, 173, 173, 173, 173, 173, 173, 173,
    173, 174, 174, 174, 174, 174, 174, 174, 174, 175, 175, 175, 175, 175, 175, 175, 175, 176, 176, 176, 176, 176, 176, 176, 176,
    177, 177, 177, 177, 177, 177, 177, 177, 178, 178, 178, 178, 178, 178, 178, 178, 179, 179, 179, 179, 179, 179, 179, 179, 180,
    180, 180, 180, 180, 180, 180, 180, 181, 181, 181, 181, 181, 181, 181, 181, 182, 182, 182, 182, 182, 182, 182, 182, 183, 183,
    183, 183, 183, 183, 183, 183, 184, 184, 184, 184, 184, 184, 184, 184, 185, 185, 185, 185, 185, 185, 185, 185, 186, 186, 186,
    186, 186, 186, 186, 186, 187, 187, 187, 187, 187, 187, 187, 187, 188, 188, 188, 188, 188, 188, 188, 188, 189, 189, 189, 189,
    189, 189, 189, 189, 190, 190, 190, 190, 190, 190, 190, 190, 191, 191, 191, 191, 191, 191, 191, 192, 192, 192, 192, 192, 192,
    192, 192, 193, 193, 193, 193, 193, 193, 193, 193, 194, 194, 194, 194, 194, 194, 194, 194, 195, 195, 195, 195, 195, 195, 195,
    195, 196, 196, 196, 196, 196, 196, 196, 196, 197, 197, 197, 197, 197, 197, 197, 197, 198, 198, 198, 198, 198, 198, 198, 199,
    199, 199, 199, 199, 199, 199, 199, 200, 200, 200, 200, 200, 200, 200, 200, 201, 201, 201, 201, 201, 201, 201, 201, 202, 202,
    202, 202, 202, 202, 202, 202, 203, 203, 203, 203, 203, 203, 203, 204, 204, 204, 204, 204, 204, 204, 204, 205, 205, 205, 205,
    205, 205, 205, 205, 206, 206, 206, 206, 206, 206, 206, 206, 207, 207, 207, 207, 207, 207, 207, 208, 208, 208, 208, 208, 208,
    208, 208, 209, 209, 209, 209, 209, 209, 209, 209, 210, 210, 210, 210, 210, 210, 210, 211, 211, 211, 211, 211, 211, 211, 211,
    212, 212, 212, 212, 212, 212, 212, 212, 213, 213, 213, 213, 213, 213, 213, 214, 214, 214, 214, 214, 214, 214, 214, 215, 215,
    215, 215, 215, 215, 215, 215, 216, 216, 216, 216, 216, 216, 216, 217, 217, 217, 217, 217, 217, 217, 217, 218, 218, 218, 218,
    218, 218, 218, 218, 219, 219, 219, 219, 219, 219, 219, 220, 220, 220, 220, 220, 220, 220, 220, 221, 221, 221, 221, 221, 221,
    221, 222, 222, 222, 222, 222, 222, 222, 222, 223, 223, 223, 223, 223, 223, 223, 224, 224, 224, 224, 224, 224, 224, 224, 225,
    225, 225, 225, 225, 225, 225, 225, 226, 226, 226, 226, 226, 226, 226, 227, 227, 227, 227, 227, 227, 227, 227, 228, 228, 228,
    228, 228, 228, 228, 229, 229, 229, 229, 229, 229, 229, 229, 230, 230, 230, 230, 230, 230, 230, 231, 231, 231, 231, 231, 231,
    231, 231, 232, 232, 232, 232, 232, 232, 232, 233, 233, 233, 233, 233, 233, 233, 233, 234, 234, 234, 234, 234, 234, 234, 235,
    235, 235, 235, 235, 235, 235, 235, 236, 236, 236, 236, 236, 236, 236, 237, 237, 237, 237, 237, 237, 237, 237, 238, 238, 238,
    238, 238, 238, 238, 239, 239, 239, 239, 239, 239, 239, 240, 240, 240, 240, 240, 240, 240, 240, 241, 241, 241, 241, 241, 241,
    241, 242, 242, 242, 242, 242, 242, 242, 242, 243, 243, 243, 243, 243, 243, 243, 244, 244, 244, 244, 244, 244, 244, 245, 245,
    245, 245, 245, 245, 245, 245, 246, 246, 246, 246, 246, 246, 246, 247, 247, 247, 247, 247, 247, 247, 247, 248, 248, 248, 248,
    248, 248, 248, 249, 249, 249, 249, 249, 249, 249, 250, 250, 250, 250, 250, 250, 250, 250, 251, 251, 251, 251, 251, 251, 251,
    252, 252, 252, 252, 252, 252, 252, 253, 253, 253, 253, 253, 253, 253, 253, 254, 254, 254, 254, 254, 254, 254, 255, 255, 255,
    255
  >>

\* Math.round(Math.pow(v / 255, 1 / 0.82) * 255) for v = k/10, k = 0..2550
\* (entry k+1); 0.82 = 0.9 * 0.8 + 0.1.
PowTable82 ==
  <<
    0, 0, 0, 0, 0, 0, 0, 0, 0, 0, 0, 0, 0, 0, 0, 0, 1, 1, 1, 1, 1, 1, 1, 1, 1,
    1, 1, 1, 1, 1, 1, 1, 1, 1, 1, 1, 1, 1, 2, 2, 2, 2, 2, 2, 2, 2, 2, 2, 2, 2,
    2, 2, 2, 2, 2, 2, 2, 2, 3, 3, 3, 3, 3, 3, 3, 3, 3, 3, 3, 3, 3, 3, 3, 3, 3,
    3, 4, 4, 4, 4, 4, 4, 4, 4, 4, 4, 4, 4, 4, 4, 4, 4, 4, 4, 5, 5, 5, 5, 5, 5,
    5, 5, 5, 5, 5, 5, 5, 5, 5, 5, 6, 6, 6, 6, 6, 6, 6, 6, 6, 6, 6, 6, 6, 6, 6,
    6, 7, 7, 7, 7, 7, 7, 7, 7, 7, 7, 7, 7, 7, 7, 7, 7, 8, 8, 8, 8, 8, 8, 8, 8,
    8, 8, 8, 8, 8, 8, 8, 9, 9, 9, 9, 9, 9, 9, 9, 9, 9, 9, 9, 9, 9, 9, 10, 10, 10,
    10, 10, 10, 10, 10, 10, 10, 10, 10, 10, 10, 10, 11, 11, 11, 11, 11, 11, 11, 11, 11, 11, 11, 11, 11,
    11, 12, 12, 12, 12, 12, 12, 12, 12, 12, 12, 12, 12, 12, 12, 12, 13, 13, 13, 13, 13, 13, 13, 13, 13,
    13, 13, 13, 13, 13, 14, 14, 14, 14, 14, 14, 14, 14, 14, 14, 14, 14, 14, 15, 15, 15, 15, 15, 15, 15,
    15, 15, 15, 15, 15, 15, 15, 16, 16, 16, 16, 16, 16, 16, 16, 16, 16, 16, 16, 16, 16, 17, 17, 17, 17,
    17, 17, 17, 17, 17, 17, 17, 17, 17, 18, 18, 18, 18, 18, 18, 18, 18, 18, 18, 18, 18, 18, 19, 19, 19,
    19, 19, 19, 19, 19, 19, 19, 19, 19, 19, 20, 20, 20, 20, 20, 20, 20, 20, 20, 20, 20, 20, 20, 21, 21,
    21, 21, 21, 21, 21, 21, 21, 21, 21, 21, 21, 22, 22, 22, 22, 22, 22, 22, 22, 22, 22, 22, 22, 22, 23,
    23, 23, 23, 23, 23, 23, 23, 23, 23, 23, 23, 24, 24, 24, 24, 24, 24, 24, 24, 24, 24, 24, 24, 24, 25,
    25, 25, 25, 25, 25, 25, 25, 25, 25, 25, 25, 26, 26, 26, 26, 26, 26, 26, 26, 26, 26, 26, 26, 26, 27,
    27, 27, 27, 27, 27, 27, 27, 27, 27, 27, 27, 28, 28, 28, 28, 28, 28, 28, 28, 28, 28, 28, 28, 29, 29,
    29, 29, 29, 29, 29, 29, 29, 29, 29, 29, 30, 30, 30, 30, 30, 30, 30, 30, 30, 30, 30, 30, 31, 31, 31,
    31, 31, 31, 31, 31, 31, 31, 31, 31, 32, 32, 32, 32, 32, 32, 32, 32, 32, 32, 32, 32, 33, 33, 33, 33,
    33, 33, 33, 33, 33, 33, 33, 33, 34, 34, 34, 34, 34, 34, 34, 34, 34, 34, 34, 34, 35, 35, 35, 35, 35,
    35, 35, 35, 35, 35, 35, 35, 36, 36, 36, 36, 36, 36, 36, 36, 36, 36, 36, 37, 37, 37, 37, 37, 37, 37,
    37, 37, 37, 37, 37, 38, 38, 38, 38, 38, 38, 38, 38, 38, 38, 38, 38, 39, 39, 39, 39, 39, 39, 39, 39,
    39, 39, 39, 40, 40, 40, 40, 40, 40, 40, 40, 40, 40, 40, 40, 41, 41, 41, 41, 41, 41, 41, 41, 41, 41,
    41, 42, 42, 42, 42, 42, 42, 42, 42, 42, 42, 42, 43, 43, 43, 43, 43, 43, 43, 43, 43, 43, 43, 43, 44,
    44, 44, 44, 44, 44, 44, 44, 44, 44, 44, 45, 45, 45, 45, 45, 45, 45, 45, 45, 45, 45, 46, 46, 46, 46,
    46, 46, 46, 46, 46, 46, 46, 47, 47, 47, 47, 47, 47, 47, 47, 47, 47, 47, 48, 48, 48, 48, 48, 48, 48,
    48, 48, 48, 48, 49, 49, 49, 49, 49, 49, 49, 49, 49, 49, 49, 50, 50, 50, 50, 50, 50, 50, 50, 50, 50,
    50, 51, 51, 51, 51, 51, 51, 51, 51, 51, 51, 51, 52, 52, 52, 52, 52, 52, 52, 52, 52, 52, 52, 53, 53,
    53, 53, 53, 53, 53, 53, 53, 53, 53, 54, 54, 54, 54, 54, 54, 54, 54, 54, 54, 54, 55, 55, 55, 55, 55,
    55, 55, 55, 55, 55, 55, 56, 56, 56, 56, 56, 56, 56, 56, 56, 56, 56, 57, 57, 57, 57, 57, 57, 57, 57,
    57, 57, 58, 58, 58, 58, 58, 58, 58, 58, 58, 58, 58, 59, 59, 59, 59, 59, 59, 59, 59, 59, 59, 59, 60,
    60, 60, 60, 60, 60, 60, 60, 60, 60, 61, 61, 61, 61, 61, 61, 61, 61, 61, 61, 61, 62, 62, 62, 62, 62,
    62, 62, 62, 62, 62, 62, 63, 63, 63, 63, 63, 63, 63, 63, 63, 63, 64, 64, 64, 64, 64, 64, 64, 64, 64,
    64, 64, 65, 65, 65, 65, 65, 65, 65, 65, 65, 65, 66, 66, 66, 66, 66, 66, 66, 66, 66, 66, 66, 67, 67,
    67, 67, 67, 67, 67, 67, 67, 67, 68, 68, 68, 68, 68, 68, 68, 68, 68, 68, 69, 69, 69, 69, 69, 69, 69,
    69, 69, 69, 69, 70, 70, 70, 70, 70, 70, 70, 70, 70, 70, 71, 71, 71, 71, 71, 71, 71, 71, 71, 71, 72,
    72, 72, 72, 72, 72, 72, 72, 72, 72, 72, 73, 73, 73, 73, 73, 73, 73, 73, 73, 73, 74, 74, 74, 74, 74,
    74, 74, 74, 74, 74, 75, 75, 75, 75, 75, 75, 75, 75, 75, 75, 76, 76, 76, 76, 76, 76, 76, 76, 76, 76,
    76, 77, 77, 77, 77, 77, 77, 77, 77, 77, 77, 78, 78, 78, 78, 78, 78, 78, 78, 78, 78, 79, 79, 79, 79,
    79, 79, 79, 79, 79, 79, 80, 80, 80, 80, 80, 80, 80, 80, 80, 80, 81, 81, 81, 81, 81, 81, 81, 81, 81,
    81, 82, 82, 82, 82, 82, 82, 82, 82, 82, 82, 83, 83, 83, 83, 83, 83, 83, 83, 83, 83, 84, 84, 84, 84,
    84, 84, 84, 84, 84, 84, 85, 85, 85, 85, 85, 85, 85, 85, 85, 85, 86, 86, 86, 86, 86, 86, 86, 86, 86,
    86, 87, 87, 87, 87, 87, 87, 87, 87, 87, 87, 88, 88, 88, 88, 88, 88, 88, 88, 88, 88, 89, 89, 89, 89,
    89, 89, 89, 89, 89, 89, 90, 90, 90, 90, 90, 90, 90, 90, 90, 90, 91, 91, 91, 91, 91, 91, 91, 91, 91,
    91, 92, 92, 92, 92, 92, 92, 92, 92, 92, 92, 93, 93, 93, 93, 93, 93, 93, 93, 93, 93, 94, 94, 94, 94,
    94, 94, 94, 94, 94, 95, 95, 95, 95, 95, 95, 95, 95, 95, 95, 96, 96, 96, 96, 96, 96, 96, 96, 96, 96,
    97, 97, 97, 97, 97, 97, 97, 97, 97, 97, 98, 98, 98, 98, 98, 98, 98, 98, 98, 99, 99, 99, 99, 99, 99,
    99, 99, 99, 99, 100, 100, 100, 100, 100, 100, 100, 100, 100, 100, 101, 101, 101, 101, 101, 101, 101, 101, 101, 101, 102,
    102, 102, 102, 102, 102, 102, 102, 102, 103, 103, 103, 103, 103, 103, 103, 103, 103, 103, 104, 104, 104, 104, 104, 104, 104,
    104, 104, 104, 105, 105, 105, 105, 105, 105, 105, 105, 105, 106, 106, 106, 106, 106, 106, 106, 106, 106, 106, 107, 107, 107,
    107, 107, 107, 107, 107, 107, 108, 108, 108, 108, 108, 108, 108, 108, 108, 108, 109, 109, 109, 109, 109, 109, 109, 109, 109,
    110, 110, 110, 110, 110, 110, 110, 110, 110, 110, 111, 111, 111, 111, 111, 111, 111, 111, 111, 111, 112, 112, 112, 112, 112,
    112, 112, 112, 112, 113, 113, 113, 113, 113, 113, 113, 113, 113, 113, 114, 114, 114, 114, 114, 114, 114, 114, 114, 115, 115,
    115, 115, 115, 115, 115, 115, 115, 116, 116, 116, 116, 116, 116, 116, 116, 116, 116, 117, 117, 117, 117, 117, 117, 117, 117,
    117, 118, 118, 118, 118, 118, 118, 118, 118, 118, 118, 119, 119, 119, 119, 119, 119, 119, 119, 119, 120, 120, 120, 120, 120,
    120, 120, 120, 120, 120, 121, 121, 121, 121, 121, 121, 121, 121, 121, 122, 122, 122, 122, 122, 122, 122, 122, 122, 123, 123,
    123, 123, 123, 123, 123, 123, 123, 123, 124, 124, 124, 124, 124, 124, 124, 124, 124, 125, 125, 125, 125, 125, 125, 125, 125,
    125, 126, 126, 126, 126, 126, 126, 126, 126, 126, 126, 127, 127, 127, 127, 127, 127, 127, 127, 127, 128, 128, 128, 128, 128,
    128, 128, 128, 128, 129, 129, 129, 129, 129, 129, 129, 129, 129, 130, 130, 130, 130, 130, 130, 130, 130, 130, 130, 131, 131,
    131, 131, 131, 131, 131, 131, 131, 132, 132, 132, 132, 132, 132, 132, 132, 132, 133, 133, 133, 133, 133, 133, 133, 133, 133,
    134, 134, 134, 134, 134, 134, 134, 134, 134, 134, 135, 135, 135, 135, 135, 135, 135, 135, 135, 136, 136, 136, 136, 136, 136,
    136, 136, 136, 137, 137, 137, 137, 137, 137, 137, 137, 137, 138, 138, 138, 138, 138, 138, 138, 138, 138, 139, 139, 139, 139,
    139, 139, 139, 139, 139, 140, 140, 140, 140, 140, 140, 140, 140, 140, 140, 141, 141, 141, 141, 141, 141, 141, 141, 141, 142,
    142, 142, 142, 142, 142, 142, 142, 142, 143, 143, 143, 143, 143, 143, 143, 143, 143, 144, 144, 144, 144, 144, 144, 144, 144,
    144, 145, 145, 145, 145, 145, 145, 145, 145, 145, 146, 146, 146, 146, 146, 146, 146, 146, 146, 147, 147, 147, 147, 147, 147,
    147, 147, 147, 148, 148, 148, 148, 148, 148, 148, 148, 148, 149, 149, 149, 149, 149, 149, 149, 149, 149, 150, 150, 150, 150,
    150, 150, 150, 150, 150, 151, 151, 151, 151, 151, 151, 151, 151, 151, 152, 152, 152, 152, 152, 152, 152, 152, 152, 153, 153,
    153, 153, 153, 153, 153, 153, 153, 154, 154, 154, 154, 154, 154, 154, 154, 154, 155, 155, 155, 155, 155, 155, 155, 155, 155,
    156, 156, 156, 156, 156, 156, 156, 156, 156, 157, 157, 157, 157, 157, 157, 157, 157, 157, 158, 158, 158, 158, 158, 158, 158,
    158, 158, 159, 159, 159, 159, 159, 159, 159, 159, 159, 160, 160, 160, 160, 160, 160, 160, 160, 160, 161, 161, 161, 161, 161,
    161, 161, 161, 161, 162, 162, 162, 162, 162, 162, 162, 162, 162, 163, 163, 163, 163, 163, 163, 163, 163, 163, 164, 164, 164,
    164, 164, 164, 164, 164, 164, 165, 165, 165, 165, 165, 165, 165, 165, 166, 166, 166, 166, 166, 166, 166, 166, 166, 167, 167,
    167, 167, 167, 167, 167, 167, 167, 168, 168, 168, 168, 168, 168, 168, 168, 168, 169, 169, 169, 169, 169, 169, 169, 169, 169,
    170, 170, 170, 170, 170, 170, 170, 170, 170, 171, 171, 171, 171, 171, 171, 171, 171, 172, 172, 172, 172, 172, 172, 172, 172,
    172, 173, 173, 173, 173, 173, 173, 173, 173, 173, 174, 174, 174, 174, 174, 174, 174, 174, 174, 175, 175, 175, 175, 175, 175,
    175, 175, 175, 176, 176, 176, 176, 176, 176, 176, 176, 177, 177, 177, 177, 177, 177, 177, 177, 177, 178, 178, 178, 178, 178,
    178, 178, 178, 178, 179, 179, 179, 179, 179, 179, 179, 179, 179, 180, 180, 180, 180, 180, 180, 180, 180, 181, 181, 181, 181,
    181, 181, 181, 181, 181, 182, 182, 182, 182, 182, 182, 182, 182, 182, 183, 183, 183, 183, 183, 183, 183, 183, 184, 184, 184,
    184, 184, 184, 184, 184, 184, 185, 185, 185, 185, 185, 185, 185, 185, 185, 186, 186, 186, 186, 186, 186, 186, 186, 186, 187,
    187, 187, 187, 187, 187, 187, 187, 188, 188, 188, 188, 188, 188, 188, 188, 188, 189, 189, 189, 189, 189, 189, 189, 189, 189,
    190, 190, 190, 190, 190, 190, 190, 190, 191, 191, 191, 191, 191, 191, 191, 191, 191, 192, 192, 192, 192, 192, 192, 192, 192,
    193, 193, 193, 193, 193, 193, 193, 193, 193, 194, 194, 194, 194, 194, 194, 194, 194, 194, 195, 195, 195, 195, 195, 195, 195,
    195, 196, 196, 196, 196, 196, 196, 196, 196, 196, 197, 197, 197, 197, 197, 197, 197, 197, 198, 198, 198, 198, 198, 198, 198,
    198, 198, 199, 199, 199, 199, 199, 199, 199, 199, 199, 200, 200, 200, 200, 200, 200, 200, 200, 201, 201, 201, 201, 201, 201,
    201, 201, 201, 202, 202, 202, 202, 202, 202, 202, 202, 203, 203, 203, 203, 203, 203, 203, 203, 203, 204, 204, 204, 204, 204,
    204, 204, 204, 205, 205, 205, 205, 205, 205, 205, 205, 205, 206, 206, 206, 206, 206, 206, 206, 206, 207, 207, 207, 207, 207,
    207, 207, 207, 207, 208, 208, 208, 208, 208, 208, 208, 208, 209, 209, 209, 209, 209, 209, 209, 209, 209, 210, 210, 210, 210,
    210, 210, 210, 210, 211, 211, 211, 211, 211, 211, 211, 211, 211, 212, 212, 212, 212, 212, 212, 212, 212, 213, 213, 213, 213,
    213, 213, 213, 213, 213, 214, 214, 214, 214, 214, 214, 214, 214, 215, 215, 215, 215, 215, 215, 215, 215, 215, 216, 216, 216,
    216, 216, 216, 216, 216, 217, 217, 217, 217, 217, 217, 217, 217, 217, 218, 218, 218, 218, 218, 218, 218, 218, 219, 219, 219,
    219, 219, 219, 219, 219, 219, 220, 220, 220, 220, 220, 220, 220, 220, 221, 221, 221, 221, 221, 221, 221, 221, 222, 222, 222,
    222, 222, 222, 222, 222, 222, 223, 223, 223, 223, 223, 223, 223, 223, 224, 224, 224, 224, 224, 224, 224, 224, 224, 225, 225,
    225, 225, 225, 225, 225, 225, 226, 226, 226, 226, 226, 226, 226, 226, 227, 227, 227, 227, 227, 227, 227, 227, 227, 228, 228,
    228, 228, 228, 228, 228, 228, 229, 229, 229, 229, 229, 229, 229, 229, 230, 230, 230, 230, 230, 230, 230, 230, 230, 231, 231,
    231, 231, 231, 231, 231, 231, 232, 232, 232, 232, 232, 232, 232, 232, 233, 233, 233, 233, 233, 233, 233, 233, 233, 234, 234,
    234, 234, 234, 234, 234, 234, 235, 235, 235, 235, 235, 235, 235, 235, 236, 236, 236, 236, 236, 236, 236, 236, 236, 237, 237,
    237, 237, 237, 237, 237, 237, 238, 238, 238, 238, 238, 238, 238, 238, 239, 239, 239, 239, 239, 239, 239, 239, 239, 240, 240,
    240, 240, 240, 240, 240, 240, 241, 241, 241, 241, 241, 241, 241, 241, 242, 242, 242, 242, 242, 242, 242, 242, 242, 243, 243,
    243, 243, 243, 243, 243, 243, 244, 244, 244, 244, 244, 244, 244, 244, 245, 245, 245, 245, 245, 245, 245, 245, 246, 246, 246,
    246, 246, 246, 246, 246, 246, 247, 247, 247, 247, 247, 247, 247, 247, 248, 248, 248, 248, 248, 248, 248, 248, 249, 249, 249,
    249, 249, 249, 249, 249, 250, 250, 250, 250, 250, 250, 250, 250, 250, 251, 251, 251, 251, 251, 251, 251, 251, 252, 252, 252,
    252, 252, 252, 252, 252, 253, 253, 253, 253, 253, 253, 253, 253, 254, 254, 254, 254, 254, 254, 254, 254, 255, 255, 255, 255,
    255
  >>

\* Math.round((1 / (1 + Math.exp(-(v / 127.5 - 1) * 1.3)) * 2 - 1 + 1) * 127.5)
\* for v = k/10, k = 0..2550 (entry k+1); 1.3 = (1.1 - 1) * 3 + 1.
SigmoidTable130 ==
  <<
    55, 55, 55, 55, 55, 55, 55, 55, 55, 55, 55, 55, 55, 55, 55, 55, 55, 55, 55, 55, 55, 56, 56, 56, 56,
    56, 56, 56, 56, 56, 56, 56, 56, 56, 56, 56, 56, 56, 56, 56, 56, 56, 56, 57, 57, 57, 57, 57, 57, 57,
    57, 57, 57, 57, 57, 57, 57, 57, 57, 57, 57, 57, 57, 57, 57, 58, 58, 58, 58, 58, 58, 58, 58, 58, 58,
    58, 58, 58, 58, 58, 58, 58, 58, 58, 58, 58, 58, 59, 59, 59, 59, 59, 59, 59, 59, 59, 59, 59, 59, 59,
    59, 59, 59, 59, 59, 59, 59, 59, 59, 60, 60, 60, 60, 60, 60, 60, 60, 60, 60, 60, 60, 60, 60, 60, 60,
    60, 60, 60, 60, 60, 61, 61, 61, 61, 61, 61, 61, 61, 61, 61, 61, 61, 61, 61, 61, 61, 61, 61, 61, 61,
    61, 62, 62, 62, 62, 62, 62, 62, 62, 62, 62, 62, 62, 62, 62, 62, 62, 62, 62, 62, 62, 62, 63, 63, 63,
    63, 63, 63, 63, 63, 63, 63, 63, 63, 63, 63, 63, 63, 63, 63, 63, 63, 63, 64, 64, 64, 64, 64, 64, 64,
    64, 64, 64, 64, 64, 64, 64, 64, 64, 64, 64, 64, 64, 65, 65, 65, 65, 65, 65, 65, 65, 65, 65, 65, 65,
    65, 65, 65, 65, 65, 65, 65, 65, 65, 66, 66, 66, 66, 66, 66, 66, 66, 66, 66, 66, 66, 66, 66, 66, 66,
    66, 66, 66, 66, 67, 67, 67, 67, 67, 67, 67, 67, 67, 67, 67, 67, 67, 67, 67, 67, 67, 67, 67, 68, 68,
    68, 68, 68, 68, 68, 68, 68, 68, 68, 68, 68, 68, 68, 68, 68, 68, 68, 68, 69, 69, 69, 69, 69, 69, 69,
    69, 69, 69, 69, 69, 69, 69, 69, 69, 69, 69, 69, 69, 70, 70, 70, 70, 70, 70, 70, 70, 70, 70, 70, 70,
    70, 70, 70, 70, 70, 70, 70, 71, 71, 71, 71, 71, 71, 71, 71, 71, 71, 71, 71, 71, 71, 71, 71, 71, 71,
    71, 72, 72, 72, 72, 72, 72, 72, 72, 72, 72, 72, 72, 72, 72, 72, 72, 72, 72, 72, 73, 73, 73, 73, 73,
    73, 73, 73, 73, 73, 73, 73, 73, 73, 73, 73, 73, 73, 73, 74, 74, 74, 74, 74, 74, 74, 74, 74, 74, 74,
    74, 74, 74, 74, 74, 74, 74, 74, 75, 75, 75, 75, 75, 75, 75, 75, 75, 75, 75, 75, 75, 75, 75, 75, 75,
    75, 76, 76, 76, 76, 76, 76, 76, 76, 76, 76, 76, 76, 76, 76, 76, 76, 76, 76, 77, 77, 77, 77, 77, 77,
    77, 77, 77, 77, 77, 77, 77, 77, 77, 77, 77, 77, 77, 78, 78, 78, 78, 78, 78, 78, 78, 78, 78, 78, 78,
    78, 78, 78, 78, 78, 78, 79, 79, 79, 79, 79, 79, 79, 79, 79, 79, 79, 79, 79, 79, 79, 79, 79, 79, 80,
    80, 80, 80, 80, 80, 80, 80, 80, 80, 80, 80, 80, 80, 80, 80, 80, 80, 81, 81, 81, 81, 81, 81, 81, 81,
    81, 81, 81, 81, 81, 81, 81, 81, 81, 82, 82, 82, 82, 82, 82, 82, 82, 82, 82, 82, 82, 82, 82, 82, 82,
    82, 82, 83, 83, 83, 83, 83, 83, 83, 83, 83, 83, 83, 83, 83, 83, 83, 83, 83, 83, 84, 84, 84, 84, 84,
    84, 84, 84, 84, 84, 84, 84, 84, 84, 84, 84, 84, 85, 85, 85, 85, 85, 85, 85, 85, 85, 85, 85, 85, 85,
    85, 85, 85, 85, 86, 86, 86, 86, 86, 86, 86, 86, 86, 86, 86, 86, 86, 86, 86, 86, 86, 86, 87, 87, 87,
    87, 87, 87, 87, 87, 87, 87, 87, 87, 87, 87, 87, 87, 87, 88, 88, 88, 88, 88, 88, 88, 88, 88, 88, 88,
    88, 88, 88, 88, 88, 88, 89, 89, 89, 89, 89, 89, 89, 89, 89, 89, 89, 89, 89, 89, 89, 89, 89, 90, 90,
    90, 90, 90, 90, 90, 90, 90, 90, 90, 90, 90, 90, 90, 90, 91, 91, 91, 91, 91, 91, 91, 91, 91, 91, 91,
    91, 91, 91, 91, 91, 91, 92, 92, 92, 92, 92, 92, 92, 92, 92, 92, 92, 92, 92, 92, 92, 92, 92, 93, 93,
    93, 93, 93, 93, 93, 93, 93, 93, 93, 93, 93, 93, 93, 93, 94, 94, 94, 94, 94, 94, 94, 94, 94, 94, 94,
    94, 94, 94, 94, 94, 94, 95, 95, 95, 95, 95, 95, 95, 95, 95, 95, 95, 95, 95, 95, 95, 95, 96, 96, 96,
    96, 96, 96, 96, 96, 96, 96, 96, 96, 96, 96, 96, 96, 96, 97, 97, 97, 97, 97, 97, 97, 97, 97, 97, 97,
    97, 97, 97, 97, 97, 98, 98, 98, 98, 98, 98, 98, 98, 98, 98, 98, 98, 98, 98, 98, 98, 99, 99, 99, 99,
    99, 99, 99, 99, 99, 99, 99, 99, 99, 99, 99, 99, 99, 100, 100, 100, 100, 100, 100, 100, 100, 100, 100, 100, 100,
    100, 100, 100, 100, 101, 101, 101, 101, 101, 101, 101, 101, 101, 101, 101, 101, 101, 101, 101, 101, 102, 102, 102, 102, 102,
    102, 102, 102, 102, 102, 102, 102, 102, 102, 102, 102, 103, 103, 103, 103, 103, 103, 103, 103, 103, 103, 103, 103, 103, 103,
    103, 103, 104, 104, 104, 104, 104, 104, 104, 104, 104, 104, 104, 104, 104, 104, 104, 104, 105, 105, 105, 105, 105, 105, 105,
    105, 105, 105, 105, 105, 105, 105, 105, 105, 106, 106, 106, 106, 106, 106, 106, 106, 106, 106, 106, 106, 106, 106, 106, 107,
    107, 107, 107, 107, 107, 107, 107, 107, 107, 107, 107, 107, 107, 107, 107, 108, 108, 108, 108, 108, 108, 108, 108, 108, 108,
    108, 108, 108, 108, 108, 108, 109, 109, 109, 109, 109, 109, 109, 109, 109, 109, 109, 109, 109, 109, 109, 109, 110, 110, 110,
    110, 110, 110, 110, 110, 110, 110, 110, 110, 110, 110, 110, 111, 111, 111, 111, 111, 111, 111, 111, 111, 111, 111, 111, 111,
    111, 111, 111, 112, 112, 112, 112, 112, 112, 112, 112, 112, 112, 112, 112, 112, 112, 112, 112, 113, 113, 113, 113, 113, 113,
    113, 113, 113, 113, 113, 113, 113, 113, 113, 114, 114, 114, 114, 114, 114, 114, 114, 114, 114, 114, 114, 114, 114, 114, 114,
    115, 115, 115, 115, 115, 115, 115, 115, 115, 115, 115, 115, 115, 115, 115, 116, 116, 116, 116, 116, 116, 116, 116, 116, 116,
    116, 116, 116, 116, 116, 116, 117, 117, 117, 117, 117, 117, 117, 117, 117, 117, 117, 117, 117, 117, 117, 118, 118, 118, 118,
    118, 118, 118, 118, 118, 118, 118, 118, 118, 118, 118, 118, 119, 119, 119, 119, 119, 119, 119, 119, 119, 119, 119, 119, 119,
    119, 119, 120, 120, 120, 120, 120, 120, 120, 120, 120, 120, 120, 120, 120, 120, 120, 120, 121, 121, 121, 121, 121, 121, 121,
    121, 121, 121, 121, 121, 121, 121, 121, 122, 122, 122, 122, 122, 122, 122, 122, 122, 122, 122, 122, 122, 122, 122, 122, 123,
    123, 123, 123, 123, 123, 123, 123, 123, 123, 123, 123, 123, 123, 123, 124, 124, 124, 124, 124, 124, 124, 124, 124, 124, 124,
    124, 124, 124, 124, 125, 125, 125, 125, 125, 125, 125, 125, 125, 125, 125, 125, 125, 125, 125, 125, 126, 126, 126, 126, 126,
    126, 126, 126, 126, 126, 126, 126, 126, 126, 126, 127, 127, 127, 127, 127, 127, 127, 127, 127, 127, 127, 127, 127, 127, 127,
    128, 128, 128, 128, 128, 128, 128, 128, 128, 128, 128, 128, 128, 128, 128, 128, 129, 129, 129, 129, 129, 129, 129, 129, 129,
    129, 129, 129, 129, 129, 129, 130, 130, 130, 130, 130, 130, 130, 130, 130, 130, 130, 130, 130, 130, 130, 130, 131, 131, 131,
    131, 131, 131, 131, 131, 131, 131, 131, 131, 131, 131, 131, 132, 132, 132, 132, 132, 132, 132, 132, 132, 132, 132, 132, 132,
    132, 132, 133, 133, 133, 133, 133, 133, 133, 133, 133, 133, 133, 133, 133, 133, 133, 133, 134, 134, 134, 134, 134, 134, 134,
    134, 134, 134, 134, 134, 134, 134, 134, 135, 135, 135, 135, 135, 135, 135, 135, 135, 135, 135, 135, 135, 135, 135, 135, 136,
    136, 136, 136, 136, 136, 136, 136, 136, 136, 136, 136, 136, 136, 136, 137, 137, 137, 137, 137, 137, 137, 137, 137, 137, 137,
    137, 137, 137, 137, 137, 138, 138, 138, 138, 138, 138, 138, 138, 138, 138, 138, 138, 138, 138, 138, 139, 139, 139, 139, 139,
    139, 139, 139, 139, 139, 139, 139, 139, 139, 139, 139, 140, 140, 140, 140, 140, 140, 140, 140, 140, 140, 140, 140, 140, 140,
    140, 141, 141, 141, 141, 141, 141, 141, 141, 141, 141, 141, 141, 141, 141, 141, 141, 142, 142, 142, 142, 142, 142, 142, 142,
    142, 142, 142, 142, 142, 142, 142, 143, 143, 143, 143, 143, 143, 143, 143, 143, 143, 143, 143, 143, 143, 143, 143, 144, 144,
    144, 144, 144, 144, 144, 144, 144, 144, 144, 144, 144, 144, 144, 144, 145, 145, 145, 145, 145, 145, 145, 145, 145, 145, 145,
    145, 145, 145, 145, 146, 146, 146, 146, 146, 146, 146, 146, 146, 146, 146, 146, 146, 146, 146, 146, 147, 147, 147, 147, 147,
    147, 147, 147, 147, 147, 147, 147, 147, 147, 147, 147, 148, 148, 148, 148, 148, 148, 148, 148, 148, 148, 148, 148, 148, 148,
    148, 148, 149, 149, 149, 149, 149, 149, 149, 149, 149, 149, 149, 149, 149, 149, 149, 150, 150, 150, 150, 150, 150, 150, 150,
    150, 150, 150, 150, 150, 150, 150, 150, 151, 151, 151, 151, 151, 151, 151, 151, 151, 151, 151, 151, 151, 151, 151, 151, 152,
    152, 152, 152, 152, 152, 152, 152, 152, 152, 152, 152, 152, 152, 152, 152, 153, 153, 153, 153, 153, 153, 153, 153, 153, 153,
    153, 153, 153, 153, 153, 153, 154, 154, 154, 154, 154, 154, 154, 154, 154, 154, 154, 154, 154, 154, 154, 154, 155, 155, 155,
    155, 155, 155, 155, 155, 155, 155, 155, 155, 155, 155, 155, 155, 156, 156, 156, 156, 156, 156, 156, 156, 156, 156, 156, 156,
    156, 156, 156, 156, 156, 157, 157, 157, 157, 157, 157, 157, 157, 157, 157, 157, 157, 157, 157, 157, 157, 158, 158, 158, 158,
    158, 158, 158, 158, 158, 158, 158, 158, 158, 158, 158, 158, 159, 159, 159, 159, 159, 159, 159, 159, 159, 159, 159, 159, 159,
    159, 159, 159, 159, 160, 160, 160, 160, 160, 160, 160, 160, 160, 160, 160, 160, 160, 160, 160, 160, 161, 161, 161, 161, 161,
    161, 161, 161, 161, 161, 161, 161, 161, 161, 161, 161, 161, 162, 162, 162, 162, 162, 162, 162, 162, 162, 162, 162, 162, 162,
    162, 162, 162, 163, 163, 163, 163, 163, 163, 163, 163, 163, 163, 163, 163, 163, 163, 163, 163, 163, 164, 164, 164, 164, 164,
    164, 164, 164, 164, 164, 164, 164, 164, 164, 164, 164, 164, 165, 165, 165, 165, 165, 165, 165, 165, 165, 165, 165, 165, 165,
    165, 165, 165, 166, 166, 166, 166, 166, 166, 166, 166, 166, 166, 166, 166, 166, 166, 166, 166, 166, 167, 167, 167, 167, 167,
    167, 167, 167, 167, 167, 167, 167, 167, 167, 167, 167, 167, 168, 168, 168, 168, 168, 168, 168, 168, 168, 168, 168, 168, 168,
    168, 168, 168, 168, 169, 169, 169, 169, 169, 169, 169, 169, 169, 169, 169, 169, 169, 169, 169, 169, 169, 169, 170, 170, 170,
    170, 170, 170, 170, 170, 170, 170, 170, 170, 170, 170, 170, 170, 170, 171, 171, 171, 171, 171, 171, 171, 171, 171, 171, 171,
    171, 171, 171, 171, 171, 171, 172, 172, 172, 172, 172, 172, 172, 172, 172, 172, 172, 172, 172, 172, 172, 172, 172, 172, 173,
    173, 173, 173, 173, 173, 173, 173, 173, 173, 173, 173, 173, 173, 173, 173, 173, 173, 174, 174, 174, 174, 174, 174, 174, 174,
    174, 174, 174, 174, 174, 174, 174, 174, 174, 175, 175, 175, 175, 175, 175, 175, 175, 175, 175, 175, 175, 175, 175, 175, 175,
    175, 175, 176, 176, 176, 176, 176, 176, 176, 176, 176, 176, 176, 176, 176, 176, 176, 176, 176, 176, 177, 177, 177, 177, 177,
    177, 177, 177, 177, 177, 177, 177, 177, 177, 177, 177, 177, 177, 178, 178, 178, 178, 178, 178, 178, 178, 178, 178, 178, 178,
    178, 178, 178, 178, 178, 178, 178, 179, 179, 179, 179, 179, 179, 179, 179, 179, 179, 179, 179, 179, 179, 179, 179, 179, 179,
    180, 180, 180, 180, 180, 180, 180, 180, 180, 180, 180, 180, 180, 180, 180, 180, 180, 180, 181, 181, 181, 181, 181, 181, 181,
    181, 181, 181, 181, 181, 181, 181, 181, 181, 181, 181, 181, 182, 182, 182, 182, 182, 182, 182, 182, 182, 182, 182, 182, 182,
    182, 182, 182, 182, 182, 182, 183, 183, 183, 183, 183, 183, 183, 183, 183, 183, 183, 183, 183, 183, 183, 183, 183, 183, 183,
    184, 184, 184, 184, 184, 184, 184, 184, 184, 184, 184, 184, 184, 184, 184, 184, 184, 184, 184, 185, 185, 185, 185, 185, 185,
    185, 185, 185, 185, 185, 185, 185, 185, 185, 185, 185, 185, 185, 186, 186, 186, 186, 186, 186, 186, 186, 186, 186, 186, 186,
    186, 186, 186, 186, 186, 186, 186, 186, 187, 187, 187, 187, 187, 187, 187, 187, 187, 187, 187, 187, 187, 187, 187, 187, 187,
    187, 187, 187, 188, 188, 188, 188, 188, 188, 188, 188, 188, 188, 188, 188, 188, 188, 188, 188, 188, 188, 188, 189, 189, 189,
    189, 189, 189, 189, 189, 189, 189, 189, 189, 189, 189, 189, 189, 189, 189, 189, 189, 190, 190, 190, 190, 190, 190, 190, 190,
    190, 190, 190, 190, 190, 190, 190, 190, 190, 190, 190, 190, 190, 191, 191, 191, 191, 191, 191, 191, 191, 191, 191, 191, 191,
    191, 191, 191, 191, 191, 191, 191, 191, 192, 192, 192, 192, 192, 192, 192, 192, 192, 192, 192, 192, 192, 192, 192, 192, 192,
    192, 192, 192, 192, 193, 193, 193, 193, 193, 193, 193, 193, 193, 193, 193, 193, 193, 193, 193, 193, 193, 193, 193, 193, 193,
    194, 194, 194, 194, 194, 194, 194, 194, 194, 194, 194, 194, 194, 194, 194, 194, 194, 194, 194, 194, 194, 195, 195, 195, 195,
    195, 195, 195, 195, 195, 195, 195, 195, 195, 195, 195, 195, 195, 195, 195, 195, 195, 196, 196, 196, 196, 196, 196, 196, 196,
    196, 196, 196, 196, 196, 196, 196, 196, 196, 196, 196, 196, 196, 196, 197, 197, 197, 197, 197, 197, 197, 197, 197, 197, 197,
    197, 197, 197, 197, 197, 197, 197, 197, 197, 197, 197, 198, 198, 198, 198, 198, 198, 198, 198, 198, 198, 198, 198, 198, 198,
    198, 198, 198, 198, 198, 198, 198, 198, 199, 199, 199, 199, 199, 199, 199, 199, 199, 199, 199, 199, 199, 199, 199, 199, 199,
    199, 199, 199, 199, 199, 200, 200, 200, 200, 200, 200, 200, 200, 200, 200, 200, 200, 200, 200, 200, 200, 200, 200, 200, 200,
    200
  >>

\* Math.round(Math.pow(v / 255, 1 / 0.1) * 255) for v = k/10, k = 0..2550
\* (entry k+1); 0.1 = 0.9 * 0 + 0.1.
PowTable10 ==
  <<
    0, 0, 0, 0, 0, 0, 0, 0, 0, 0, 0, 0, 0, 0, 0, 0, 0, 0, 0, 0, 0, 0, 0, 0, 0,
    0, 0, 0, 0, 0, 0, 0, 0, 0, 0, 0, 0, 0, 0, 0, 0, 0, 0, 0, 0, 0, 0, 0, 0, 0,
    0, 0, 0, 0, 0, 0, 0, 0, 0, 0, 0, 0, 0, 0, 0, 0, 0, 0, 0, 0, 0, 0, 0, 0, 0,
    0, 0, 0, 0, 0, 0, 0, 0, 0, 0, 0, 0, 0, 0, 0, 0, 0, 0, 0, 0, 0, 0, 0, 0, 0,
    0, 0, 0, 0, 0, 0, 0, 0, 0, 0, 0, 0, 0, 0, 0, 0, 0, 0, 0, 0, 0, 0, 0, 0, 0,
    0, 0, 0, 0, 0, 0, 0, 0, 0, 0, 0, 0, 0, 0, 0, 0, 0, 0, 0, 0, 0, 0, 0, 0, 0,
    0, 0, 0, 0, 0, 0, 0, 0, 0, 0, 0, 0, 0, 0, 0, 0, 0, 0, 0, 0, 0, 0, 0, 0, 0,
    0, 0, 0, 0, 0, 0, 0, 0, 0, 0, 0, 0, 0, 0, 0, 0, 0, 0, 0, 0, 0, 0, 0, 0, 0,
    0, 0, 0, 0, 0, 0, 0, 0, 0, 0, 0, 0, 0, 0, 0, 0, 0, 0, 0, 0, 0, 0, 0, 0, 0,
    0, 0, 0, 0, 0, 0, 0, 0, 0, 0, 0, 0, 0, 0, 0, 0, 0, 0, 0, 0, 0, 0, 0, 0, 0,
    0, 0, 0, 0, 0, 0, 0, 0, 0, 0, 0, 0, 0, 0, 0, 0, 0, 0, 0, 0, 0, 0, 0, 0, 0,
    0, 0, 0, 0, 0, 0, 0, 0, 0, 0, 0, 0, 0, 0, 0, 0, 0, 0, 0, 0, 0, 0, 0, 0, 0,
    0, 0, 0, 0, 0, 0, 0, 0, 0, 0, 0, 0, 0, 0, 0, 0, 0, 0, 0, 0, 0, 0, 0, 0, 0,
    0, 0, 0, 0, 0, 0, 0, 0, 0, 0, 0, 0, 0, 0, 0, 0, 0, 0, 0, 0, 0, 0, 0, 0, 0,
    0, 0, 0, 0, 0, 0, 0, 0, 0, 0, 0, 0, 0, 0, 0, 0, 0, 0, 0, 0, 0, 0, 0, 0, 0,
    0, 0, 0, 0, 0, 0, 0, 0, 0, 0, 0, 0, 0, 0, 0, 0, 0, 0, 0, 0, 0, 0, 0, 0, 0,
    0, 0, 0, 0, 0, 0, 0, 0, 0, 0, 0, 0, 0, 0, 0, 0, 0, 0, 0, 0, 0, 0, 0, 0, 0,
    0, 0, 0, 0, 0, 0, 0, 0, 0, 0, 0, 0, 0, 0, 0, 0, 0, 0, 0, 0, 0, 0, 0, 0, 0,
    0, 0, 0, 0, 0, 0, 0, 0, 0, 0, 0, 0, 0, 0, 0, 0, 0, 0, 0, 0, 0, 0, 0, 0, 0,
    0, 0, 0, 0, 0, 0, 0, 0, 0, 0, 0, 0, 0, 0, 0, 0, 0, 0, 0, 0, 0, 0, 0, 0, 0,
    0, 0, 0, 0, 0, 0, 0, 0, 0, 0, 0, 0, 0, 0, 0, 0, 0, 0, 0, 0, 0, 0, 0, 0, 0,
    0, 0, 0, 0, 0, 0, 0, 0, 0, 0, 0, 0, 0, 0, 0, 0, 0, 0, 0, 0, 0, 0, 0, 0, 0,
    0, 0, 0, 0, 0, 0, 0, 0, 0, 0, 0, 0, 0, 0, 0, 0, 0, 0, 0, 0, 0, 0, 0, 0, 0,
    0, 0, 0, 0, 0, 0, 0, 0, 0, 0, 0, 0, 0, 0, 0, 0, 0, 0, 0, 0, 0, 0, 0, 0, 0,
    0, 0, 0, 0, 0, 0, 0, 0, 0, 0, 0, 0, 0, 0, 0, 0, 0, 0, 0, 0, 0, 0, 0, 0, 0,
    0, 0, 0, 0, 0, 0, 0, 0, 0, 0, 0, 0, 0, 0, 0, 0, 0, 0, 0, 0, 0, 0, 0, 0, 0,
    0, 0, 0, 0, 0, 0, 0, 0, 0, 0, 0, 0, 0, 0, 0, 0, 0, 0, 0, 0, 0, 0, 0, 0, 0,
    0, 0, 0, 0, 0, 0, 0, 0, 0, 0, 0, 0, 0, 0, 0, 0, 0, 0, 0, 0, 0, 0, 0, 0, 0,
    0, 0, 0, 0, 0, 0, 0, 0, 0, 0, 0, 0, 0, 0, 0, 0, 0, 0, 0, 0, 0, 0, 0, 0, 0,
    0, 0, 0, 0, 0, 0, 0, 0, 0, 0, 0, 0, 0, 0, 0, 0, 0, 0, 0, 0, 0, 0, 0, 0, 0,
    0, 0, 0, 0, 0, 0, 0, 0, 0, 0, 0, 0, 0, 0, 0, 0, 0, 0, 0, 0, 0, 0, 0, 0, 0,
    0, 0, 0, 0, 0, 0, 0, 0, 0, 0, 0, 0, 0, 0, 0, 0, 0, 0, 0, 0, 0, 0, 0, 0, 0,
    0, 0, 0, 0, 0, 0, 0, 0, 0, 0, 0, 0, 0, 0, 0, 0, 0, 0, 0, 0, 0, 0, 0, 0, 0,
    0, 0, 0, 0, 0, 0, 0, 0, 0, 0, 0, 0, 0, 0, 0, 0, 0, 0, 0, 0, 0, 0, 0, 0, 0,
    0, 0, 0, 0, 0, 0, 0, 0, 0, 0, 0, 0, 0, 0, 0, 0, 0, 0, 0, 0, 0, 0, 0, 0, 0,
    0, 0, 0, 0, 0, 0, 0, 0, 0, 0, 0, 0, 0, 0, 0, 0, 0, 0, 0, 0, 0, 0, 0, 0, 0,
    0, 0, 0, 0, 0, 0, 0, 0, 0, 0, 0, 0, 0, 0, 0, 0, 0, 0, 0, 0, 0, 0, 0, 0, 0,
    0, 0, 0, 0, 0, 0, 0, 0, 0, 0, 0, 0, 0, 0, 0, 0, 0, 0, 0, 0, 0, 0, 0, 0, 0,
    0, 0, 0, 0, 0, 0, 0, 0, 0, 0, 0, 0, 0, 0, 0, 0, 0, 0, 0, 0, 0, 0, 0, 0, 0,
    0, 0, 0, 0, 0, 0, 0, 0, 0, 0, 0, 0, 0, 0, 0, 0, 0, 0, 0, 0, 0, 0, 0, 0, 0,
    0, 0, 0, 0, 0, 0, 0, 0, 0, 0, 0, 0, 0, 0, 0, 0, 0, 0, 0, 0, 0, 0, 0, 0, 0,
    0, 0, 0, 0, 0, 0, 0, 0, 0, 0, 0, 0, 0, 0, 0, 0, 0, 0, 0, 0, 0, 0, 0, 0, 0,
    0, 0, 0, 0, 0, 0, 0, 0, 0, 0, 0, 0, 0, 0, 0, 0, 0, 0, 0, 0, 0, 0, 0, 0, 0,
    0, 0, 0, 0, 0, 0, 0, 0, 0, 0, 0, 0, 0, 0, 0, 0, 0, 0, 0, 0, 0, 0, 0, 0, 0,
    0, 0, 0, 0, 0, 0, 0, 0, 0, 0, 0, 0, 0, 0, 0, 0, 0, 0, 0, 0, 0, 0, 0, 0, 0,
    0, 0, 0, 0, 0, 0, 0, 0, 0, 0, 0, 0, 0, 0, 0, 0, 0, 0, 0, 0, 0, 0, 0, 0, 0,
    0, 0, 0, 0, 0, 0, 0, 0, 0, 0, 0, 0, 0, 0, 0, 0, 0, 0, 0, 0, 0, 0, 0, 0, 0,
    0, 0, 0, 0, 0, 0, 0, 0, 0, 0, 0, 0, 0, 0, 0, 0, 0, 0, 0, 0, 0, 0, 0, 0, 0,
    0, 0, 0, 0, 0, 0, 0, 0, 0, 0, 0, 0, 0, 0, 0, 0, 0, 0, 0, 0, 0, 0, 0, 0, 0,
    0, 0, 0, 0, 0, 0, 0, 0, 0, 0, 0, 0, 0, 0, 0, 0, 0, 0, 0, 0, 0, 0, 0, 0, 0,
    0, 0, 0, 0, 0, 0, 0, 0, 0, 0, 0, 0, 0, 0, 0, 0, 0, 0, 0, 0, 0, 0, 0, 0, 0,
    0, 0, 0, 0, 0, 0, 0, 0, 0, 0, 0, 0, 0, 0, 0, 0, 0, 0, 0, 0, 0, 0, 0, 0, 0,
    0, 0, 0, 0, 0, 0, 0, 0, 0, 0, 0, 0, 0, 0, 0, 0, 0, 0, 0, 0, 0, 0, 0, 0, 0,
    0, 0, 0, 0, 0, 0, 0, 0, 0, 0, 0, 0, 0, 0, 0, 0, 0, 0, 0, 0, 0, 0, 0, 0, 0,
    0, 0, 0, 0, 0, 0, 0, 0, 0, 0, 0, 0, 0, 0, 0, 0, 0, 0, 1, 1, 1, 1, 1, 1, 1,
    1, 1, 1, 1, 1, 1, 1, 1, 1, 1, 1, 1, 1, 1, 1, 1, 1, 1, 1, 1, 1, 1, 1, 1, 1,
    1, 1, 1, 1, 1, 1, 1, 1, 1, 1, 1, 1, 1, 1, 1, 1, 1, 1, 1, 1, 1, 1, 1, 1, 1,
    1, 1, 1, 1, 1, 1, 1, 1, 1, 1, 1, 1, 1, 1, 1, 1, 1, 1, 1, 1, 1, 1, 1, 1, 1,
    1, 1, 1, 1, 1, 1, 1, 1, 1, 1, 1, 1, 1, 1, 1, 1, 1, 1, 1, 1, 1, 1, 1, 1, 1,
    1, 1, 1, 1, 1, 1, 1, 1, 1, 1, 1, 1, 1, 1, 1, 1, 1, 1, 1, 1, 1, 1, 1, 1, 1,
    1, 1, 1, 1, 1, 1, 1, 1, 1, 1, 1, 1, 1, 1, 1, 1, 1, 1, 1, 1, 1, 1, 1, 1, 1,
    1, 2, 2, 2, 2, 2, 2, 2, 2, 2, 2, 2, 2, 2, 2, 2, 2, 2, 2, 2, 2, 2, 2, 2, 2,
    2, 2, 2, 2, 2, 2, 2, 2, 2, 2, 2, 2, 2, 2, 2, 2, 2, 2, 2, 2, 2, 2, 2, 2, 2,
    2, 2, 2, 2, 2, 2, 2, 2, 2, 2, 2, 2, 2, 2, 2, 2, 2, 2, 2, 2, 2, 2, 2, 2, 2,
    2, 2, 2, 2, 2, 2, 3, 3, 3, 3, 3, 3, 3, 3, 3, 3, 3, 3, 3, 3, 3, 3, 3, 3, 3,
    3, 3, 3, 3, 3, 3, 3, 3, 3, 3, 3, 3, 3, 3, 3, 3, 3, 3, 3, 3, 3, 3, 3, 3, 3,
    3, 3, 3, 3, 3, 3, 3, 3, 3, 3, 3, 4, 4, 4, 4, 4, 4, 4, 4, 4, 4, 4, 4, 4, 4,
    4, 4, 4, 4, 4, 4, 4, 4, 4, 4, 4, 4, 4, 4, 4, 4, 4, 4, 4, 4, 4, 4, 4, 4, 4,
    4, 4, 4, 5, 5, 5, 5, 5, 5, 5, 5, 5, 5, 5, 5, 5, 5, 5, 5, 5, 5, 5, 5, 5, 5,
    5, 5, 5, 5, 5, 5, 5, 5, 5, 5, 5, 5, 5, 6, 6, 6, 6, 6, 6, 6, 6, 6, 6, 6, 6,
    6, 6, 6, 6, 6, 6, 6, 6, 6, 6, 6, 6, 6, 6, 6, 6, 6, 7, 7, 7, 7, 7, 7, 7, 7,
    7, 7, 7, 7, 7, 7, 7, 7, 7, 7, 7, 7, 7, 7, 7, 7, 7, 7, 8, 8, 8, 8, 8, 8, 8,
    8, 8, 8, 8, 8, 8, 8, 8, 8, 8, 8, 8, 8, 8, 8, 9, 9, 9, 9, 9, 9, 9, 9, 9, 9,
    9, 9, 9, 9, 9, 9, 9, 9, 9, 9, 9, 10, 10, 10, 10, 10, 10, 10, 10, 10, 10, 10, 10, 10, 10,
    10, 10, 10, 10, 11, 11, 11, 11, 11, 11, 11, 11, 11, 11, 11, 11, 11, 11, 11, 11, 11, 12, 12, 12, 12,
    12, 12, 12, 12, 12, 12, 12, 12, 12, 12, 12, 12, 13, 13, 13, 13, 13, 13, 13, 13, 13, 13, 13, 13, 13,
    13, 14, 14, 14, 14, 14, 14, 14, 14, 14, 14, 14, 14, 14, 14, 15, 15, 15, 15, 15, 15, 15, 15, 15, 15,
    15, 15, 15, 16, 16, 16, 16, 16, 16, 16, 16, 16, 16, 16, 16, 17, 17, 17, 17, 17, 17, 17, 17, 17, 17,
    17, 18, 18, 18, 18, 18, 18, 18, 18, 18, 18, 18, 19, 19, 19, 19, 19, 19, 19, 19, 19, 19, 20, 20, 20,
    20, 20, 20, 20, 20, 20, 20, 21, 21, 21, 21, 21, 21, 21, 21, 21, 21, 22, 22, 22, 22, 22, 22, 22, 22,
    22, 23, 23, 23, 23, 23, 23, 23, 23, 23, 24, 24, 24, 24, 24, 24, 24, 24, 25, 25, 25, 25, 25, 25, 25,
    25, 26, 26, 26, 26, 26, 26, 26, 26, 27, 27, 27, 27, 27, 27, 27, 28, 28, 28, 28, 28, 28, 28, 28, 29,
    29, 29, 29, 29, 29, 29, 30, 30, 30, 30, 30, 30, 30, 31, 31, 31, 31, 31, 31, 32, 32, 32, 32, 32, 32,
    32, 33, 33, 33, 33, 33, 33, 34, 34, 34, 34, 34, 34, 35, 35, 35, 35, 35, 35, 36, 36, 36, 36, 36, 36,
    37, 37, 37, 37, 37, 37, 38, 38, 38, 38, 38, 39, 39, 39, 39, 39, 39, 40, 40, 40, 40, 40, 41, 41, 41,
    41, 41, 42, 42, 42, 42, 42, 43, 43, 43, 43, 43, 44, 44, 44, 44, 44, 45, 45, 45, 45, 45, 46, 46, 46,
    46, 47, 47, 47, 47, 47, 48, 48, 48, 48, 48, 49, 49, 49, 49, 50, 50, 50, 50, 51, 51, 51, 51, 51, 52,
    52, 52, 52, 53, 53, 53, 53, 54, 54, 54, 54, 55, 55, 55, 55, 56, 56, 56, 56, 57, 57, 57, 57, 58, 58,
    58, 59, 59, 59, 59, 60, 60, 60, 60, 61, 61, 61, 62, 62, 62, 62, 63, 63, 63, 63, 64, 64, 64, 65, 65,
    65, 66, 66, 66, 66, 67, 67, 67, 68, 68, 68, 69, 69, 69, 69, 70, 70, 70, 71, 71, 71, 72, 72, 72, 73,
    73, 73, 74, 74, 74, 75, 75, 75, 76, 76, 76, 77, 77, 77, 78, 78, 78, 79, 79, 79, 80, 80, 80, 81, 81,
    81, 82, 82, 83, 83, 83, 84, 84, 84, 85, 85, 85, 86, 86, 87, 87, 87, 88, 88, 89, 89, 89, 90, 90, 90,
    91, 91, 92, 92, 92, 93, 93, 94, 94, 94, 95, 95, 96, 96, 97, 97, 97, 98, 98, 99, 99, 100, 100, 100, 101,
    101, 102, 102, 103, 103, 103, 104, 104, 105, 105, 106, 106, 107, 107, 108, 108, 108, 109, 109, 110, 110, 111, 111, 112, 112,
    113, 113, 114, 114, 115, 115, 116, 116, 117, 117, 118, 118, 119, 119, 120, 120, 121, 121, 122, 122, 123, 123, 124, 124, 125,
    125, 126, 126, 127, 127, 128, 128, 129, 130, 130, 131, 131, 132, 132, 133, 133, 134, 135, 135, 136, 136, 137, 137, 138, 138,
    139, 140, 140, 141, 141, 142, 143, 143, 144, 144, 145, 146, 146, 147, 147, 148, 149, 149, 150, 150, 151, 152, 152, 153, 154,
    154, 155, 156, 156, 157, 157, 158, 159, 159, 160, 161, 161, 162, 163, 163, 164, 165, 165, 166, 167, 167, 168, 169, 170, 170,
    171, 172, 172, 173, 174, 174, 175, 176, 177, 177, 178, 179, 179, 180, 181, 182, 182, 183, 184, 185, 185, 186, 187, 188, 188,
    189, 190, 191, 191, 192, 193, 194, 195, 195, 196, 197, 198, 199, 199, 200, 201, 202, 203, 203, 204, 205, 206, 207, 208, 208,
    209, 210, 211, 212, 213, 213, 214, 215, 216, 217, 218, 219, 219, 220, 221, 222, 223, 224, 225, 226, 227, 227, 228, 229, 230,
    231, 232, 233, 234, 235, 236, 237, 238, 239, 239, 240, 241, 242, 243, 244, 245, 246, 247, 248, 249, 250, 251, 252, 253, 254,
    255
  >>

\* Math.round(Math.pow(v / 255, 1 / 0.1009) * 255) for v = k/10, k = 0..2550
\* (entry k+1); 0.1009 = 0.9 * 0.001 + 0.1.
PowTable1009 ==
  <<
    0, 0, 0, 0, 0, 0, 0, 0, 0, 0, 0, 0, 0, 0, 0, 0, 0, 0, 0, 0, 0, 0, 0, 0, 0,
    0, 0, 0, 0, 0, 0, 0, 0, 0, 0, 0, 0, 0, 0, 0, 0, 0, 0, 0, 0, 0, 0, 0, 0, 0,
    0, 0, 0, 0, 0, 0, 0, 0, 0, 0, 0, 0, 0, 0, 0, 0, 0, 0, 0, 0, 0, 0, 0, 0, 0,
    0, 0, 0, 0, 0, 0, 0, 0, 0, 0, 0, 0, 0, 0, 0, 0, 0, 0, 0, 0, 0, 0, 0, 0, 0,
    0, 0, 0, 0, 0, 0, 0, 0, 0, 0, 0, 0, 0, 0, 0, 0, 0, 0, 0, 0, 0, 0, 0, 0, 0,
    0, 0, 0, 0, 0, 0, 0, 0, 0, 0, 0, 0, 0, 0, 0, 0, 0, 0, 0, 0, 0, 0, 0, 0, 0,
    0, 0, 0, 0, 0, 0, 0, 0, 0, 0, 0, 0, 0, 0, 0, 0, 0, 0, 0, 0, 0, 0, 0, 0, 0,
    0, 0, 0, 0, 0, 0, 0, 0, 0, 0, 0, 0, 0, 0, 0, 0, 0, 0, 0, 0, 0, 0, 0, 0, 0,
    0, 0, 0, 0, 0, 0, 0, 0, 0, 0, 0, 0, 0, 0, 0, 0, 0, 0, 0, 0, 0, 0, 0, 0, 0,
    0, 0, 0, 0, 0, 0, 0, 0, 0, 0, 0, 0, 0, 0, 0, 0, 0, 0, 0, 0, 0, 0, 0, 0, 0,
    0, 0, 0, 0, 0, 0, 0, 0, 0, 0, 0, 0, 0, 0, 0, 0, 0, 0, 0, 0, 0, 0, 0, 0, 0,
    0, 0, 0, 0, 0, 0, 0, 0, 0, 0, 0, 0, 0, 0, 0, 0, 0, 0, 0, 0, 0, 0, 0, 0, 0,
    0, 0, 0, 0, 0, 0, 0, 0, 0, 0, 0, 0, 0, 0, 0, 0, 0, 0, 0, 0, 0, 0, 0, 0, 0,
    0, 0, 0, 0, 0, 0, 0, 0, 0, 0, 0, 0, 0, 0, 0, 0, 0, 0, 0, 0, 0, 0, 0, 0, 0,
    0, 0, 0, 0, 0, 0, 0, 0, 0, 0, 0, 0, 0, 0, 0, 0, 0, 0, 0, 0, 0, 0, 0, 0, 0,
    0, 0, 0, 0, 0, 0, 0, 0, 0, 0, 0, 0, 0, 0, 0, 0, 0, 0, 0, 0, 0, 0, 0, 0, 0,
    0, 0, 0, 0, 0, 0, 0, 0, 0, 0, 0, 0, 0, 0, 0, 0, 0, 0, 0, 0, 0, 0, 0, 0, 0,
    0, 0, 0, 0, 0, 0, 0, 0, 0, 0, 0, 0, 0, 0, 0, 0, 0, 0, 0, 0, 0, 0, 0, 0, 0,
    0, 0, 0, 0, 0, 0, 0, 0, 0, 0, 0, 0, 0, 0, 0, 0, 0, 0, 0, 0, 0, 0, 0, 0, 0,
    0, 0, 0, 0, 0, 0, 0, 0, 0, 0, 0, 0, 0, 0, 0, 0, 0, 0, 0, 0, 0, 0, 0, 0, 0,
    0, 0, 0, 0, 0, 0, 0, 0, 0, 0, 0, 0, 0, 0, 0, 0, 0, 0, 0, 0, 0, 0, 0, 0, 0,
    0, 0, 0, 0, 0, 0, 0, 0, 0, 0, 0, 0, 0, 0, 0, 0, 0, 0, 0, 0, 0, 0, 0, 0, 0,
    0, 0, 0, 0, 0, 0, 0, 0, 0, 0, 0, 0, 0, 0, 0, 0, 0, 0, 0, 0, 0, 0, 0, 0, 0,
    0, 0, 0, 0, 0, 0, 0, 0, 0, 0, 0, 0, 0, 0, 0, 0, 0, 0, 0, 0, 0, 0, 0, 0, 0,
    0, 0, 0, 0, 0, 0, 0, 0, 0, 0, 0, 0, 0, 0, 0, 0, 0, 0, 0, 0, 0, 0, 0, 0, 0,
    0, 0, 0, 0, 0, 0, 0, 0, 0, 0, 0, 0, 0, 0, 0, 0, 0, 0, 0, 0, 0, 0, 0, 0, 0,
    0, 0, 0, 0, 0, 0, 0, 0, 0, 0, 0, 0, 0, 0, 0, 0, 0, 0, 0, 0, 0, 0, 0, 0, 0,
    0, 0, 0, 0, 0, 0, 0, 0, 0, 0, 0, 0, 0, 0, 0, 0, 0, 0, 0, 0, 0, 0, 0, 0, 0,
    0, 0, 0, 0, 0, 0, 0, 0, 0, 0, 0, 0, 0, 0, 0, 0, 0, 0, 0, 0, 0, 0, 0, 0, 0,
    0, 0, 0, 0, 0, 0, 0, 0, 0, 0, 0, 0, 0, 0, 0, 0, 0, 0, 0, 0, 0, 0, 0, 0, 0,
    0, 0, 0, 0, 0, 0, 0, 0, 0, 0, 0, 0, 0, 0, 0, 0, 0, 0, 0, 0, 0, 0, 0, 0, 0,
    0, 0, 0, 0, 0, 0, 0, 0, 0, 0, 0, 0, 0, 0, 0, 0, 0, 0, 0, 0, 0, 0, 0, 0, 0,
    0, 0, 0, 0, 0, 0, 0, 0, 0, 0, 0, 0, 0, 0, 0, 0, 0, 0, 0, 0, 0, 0, 0, 0, 0,
    0, 0, 0, 0, 0, 0, 0, 0, 0, 0, 0, 0, 0, 0, 0, 0, 0, 0, 0, 0, 0, 0, 0, 0, 0,
    0, 0, 0, 0, 0, 0, 0, 0, 0, 0, 0, 0, 0, 0, 0, 0, 0, 0, 0, 0, 0, 0, 0, 0, 0,
    0, 0, 0, 0, 0, 0, 0, 0, 0, 0, 0, 0, 0, 0, 0, 0, 0, 0, 0, 0, 0, 0, 0, 0, 0,
    0, 0, 0, 0, 0, 0, 0, 0, 0, 0, 0, 0, 0, 0, 0, 0, 0, 0, 0, 0, 0, 0, 0, 0, 0,
    0, 0, 0, 0, 0, 0, 0, 0, 0, 0, 0, 0, 0, 0, 0, 0, 0, 0, 0, 0, 0, 0, 0, 0, 0,
    0, 0, 0, 0, 0, 0, 0, 0, 0, 0, 0, 0, 0, 0, 0, 0, 0, 0, 0, 0, 0, 0, 0, 0, 0,
    0, 0, 0, 0, 0, 0, 0, 0, 0, 0, 0, 0, 0, 0, 0, 0, 0, 0, 0, 0, 0, 0, 0, 0, 0,
    0, 0, 0, 0, 0, 0, 0, 0, 0, 0, 0, 0, 0, 0, 0, 0, 0, 0, 0, 0, 0, 0, 0, 0, 0,
    0, 0, 0, 0, 0, 0, 0, 0, 0, 0, 0, 0, 0, 0, 0, 0, 0, 0, 0, 0, 0, 0, 0, 0, 0,
    0, 0, 0, 0, 0, 0, 0, 0, 0, 0, 0, 0, 0, 0, 0, 0, 0, 0, 0, 0, 0, 0, 0, 0, 0,
    0, 0, 0, 0, 0, 0, 0, 0, 0, 0, 0, 0, 0, 0, 0, 0, 0, 0, 0, 0, 0, 0, 0, 0, 0,
    0, 0, 0, 0, 0, 0, 0, 0, 0, 0, 0, 0, 0, 0, 0, 0, 0, 0, 0, 0, 0, 0, 0, 0, 0,
    0, 0, 0, 0, 0, 0, 0, 0, 0, 0, 0, 0, 0, 0, 0, 0, 0, 0, 0, 0, 0, 0, 0, 0, 0,
    0, 0, 0, 0, 0, 0, 0, 0, 0, 0, 0, 0, 0, 0, 0, 0, 0, 0, 0, 0, 0, 0, 0, 0, 0,
    0, 0, 0, 0, 0, 0, 0, 0, 0, 0, 0, 0, 0, 0, 0, 0, 0, 0, 0, 0, 0, 0, 0, 0, 0,
    0, 0, 0, 0, 0, 0, 0, 0, 0, 0, 0, 0, 0, 0, 0, 0, 0, 0, 0, 0, 0, 0, 0, 0, 0,
    0, 0, 0, 0, 0, 0, 0, 0, 0, 0, 0, 0, 0, 0, 0, 0, 0, 0, 0, 0, 0, 0, 0, 0, 0,
    0, 0, 0, 0, 0, 0, 0, 0, 0, 0, 0, 0, 0, 0, 0, 0, 0, 0, 0, 0, 0, 0, 0, 0, 0,
    0, 0, 0, 0, 0, 0, 0, 0, 0, 0, 0, 0, 0, 0, 0, 0, 0, 0, 0, 0, 0, 0, 0, 0, 0,
    0, 0, 0, 0, 0, 0, 0, 0, 0, 0, 0, 0, 0, 0, 0, 0, 0, 0, 0, 0, 0, 0, 0, 0, 0,
    0, 0, 0, 0, 0, 0, 0, 0, 0, 0, 0, 0, 0, 0, 0, 0, 0, 0, 0, 0, 0, 0, 0, 0, 0,
    0, 0, 0, 0, 0, 0, 0, 0, 0, 0, 1, 1, 1, 1, 1, 1, 1, 1, 1, 1, 1, 1, 1, 1, 1,
    1, 1, 1, 1, 1, 1, 1, 1, 1, 1, 1, 1, 1, 1, 1, 1, 1, 1, 1, 1, 1, 1, 1, 1, 1,
    1, 1, 1, 1, 1, 1, 1, 1, 1, 1, 1, 1, 1, 1, 1, 1, 1, 1, 1, 1, 1, 1, 1, 1, 1,
    1, 1, 1, 1, 1, 1, 1, 1, 1, 1, 1, 1, 1, 1, 1, 1, 1, 1, 1, 1, 1, 1, 1, 1, 1,
    1, 1, 1, 1, 1, 1, 1, 1, 1, 1, 1, 1, 1, 1, 1, 1, 1, 1, 1, 1, 1, 1, 1, 1, 1,
    1, 1, 1, 1, 1, 1, 1, 1, 1, 1, 1, 1, 1, 1, 1, 1, 1, 1, 1, 1, 1, 1, 1, 1, 1,
    1, 1, 1, 1, 1, 1, 1, 1, 1, 1, 1, 1, 1, 1, 1, 1, 1, 1, 1, 2, 2, 2, 2, 2, 2,
    2, 2, 2, 2, 2, 2, 2, 2, 2, 2, 2, 2, 2, 2, 2, 2, 2, 2, 2, 2, 2, 2, 2, 2, 2,
    2, 2, 2, 2, 2, 2, 2, 2, 2, 2, 2, 2, 2, 2, 2, 2, 2, 2, 2, 2, 2, 2, 2, 2, 2,
    2, 2, 2, 2, 2, 2, 2, 2, 2, 2, 2, 2, 2, 2, 2, 2, 2, 2, 2, 2, 2, 2, 2, 2, 2,
    3, 3, 3, 3, 3, 3, 3, 3, 3, 3, 3, 3, 3, 3, 3, 3, 3, 3, 3, 3, 3, 3, 3, 3, 3,
    3, 3, 3, 3, 3, 3, 3, 3, 3, 3, 3, 3, 3, 3, 3, 3, 3, 3, 3, 3, 3, 3, 3, 3, 3,
    3, 3, 3, 3, 3, 4, 4, 4, 4, 4, 4, 4, 4, 4, 4, 4, 4, 4, 4, 4, 4, 4, 4, 4, 4,
    4, 4, 4, 4, 4, 4, 4, 4, 4, 4, 4, 4, 4, 4, 4, 4, 4, 4, 4, 4, 4, 4, 5, 5, 5,
    5, 5, 5, 5, 5, 5, 5, 5, 5, 5, 5, 5, 5, 5, 5, 5, 5, 5, 5, 5, 5, 5, 5, 5, 5,
    5, 5, 5, 5, 5, 5, 5, 6, 6, 6, 6, 6, 6, 6, 6, 6, 6, 6, 6, 6, 6, 6, 6, 6, 6,
    6, 6, 6, 6, 6, 6, 6, 6, 6, 6, 6, 7, 7, 7, 7, 7, 7, 7, 7, 7, 7, 7, 7, 7, 7,
    7, 7, 7, 7, 7, 7, 7, 7, 7, 7, 7, 7, 8, 8, 8, 8, 8, 8, 8, 8, 8, 8, 8, 8, 8,
    8, 8, 8, 8, 8, 8, 8, 8, 8, 8, 9, 9, 9, 9, 9, 9, 9, 9, 9, 9, 9, 9, 9, 9, 9,
    9, 9, 9, 9, 9, 10, 10, 10, 10, 10, 10, 10, 10, 10, 10, 10, 10, 10, 10, 10, 10, 10, 10, 10, 11,
    11, 11, 11, 11, 11, 11, 11, 11, 11, 11, 11, 11, 11, 11, 11, 11, 12, 12, 12, 12, 12, 12, 12, 12, 12,
    12, 12, 12, 12, 12, 12, 12, 13, 13, 13, 13, 13, 13, 13, 13, 13, 13, 13, 13, 13, 13, 14, 14, 14, 14,
    14, 14, 14, 14, 14, 14, 14, 14, 14, 14, 15, 15, 15, 15, 15, 15, 15, 15, 15, 15, 15, 15, 15, 16, 16,
    16, 16, 16, 16, 16, 16, 16, 16, 16, 16, 17, 17, 17, 17, 17, 17, 17, 17, 17, 17, 17, 18, 18, 18, 18,
    18, 18, 18, 18, 18, 18, 18, 19, 19, 19, 19, 19, 19, 19, 19, 19, 19, 19, 20, 20, 20, 20, 20, 20, 20,
    20, 20, 20, 21, 21, 21, 21, 21, 21, 21, 21, 21, 22, 22, 22, 22, 22, 22, 22, 22, 22, 23, 23, 23, 23,
    23, 23, 23, 23, 23, 24, 24, 24, 24, 24, 24, 24, 24, 24, 25, 25, 25, 25, 25, 25, 25, 25, 26, 26, 26,
    26, 26, 26, 26, 26, 27, 27, 27, 27, 27, 27, 27, 28, 28, 28, 28, 28, 28, 28, 28, 29, 29, 29, 29, 29,
    29, 29, 30, 30, 30, 30, 30, 30, 30, 31, 31, 31, 31, 31, 31, 32, 32, 32, 32, 32, 32, 32, 33, 33, 33,
    33, 33, 33, 34, 34, 34, 34, 34, 34, 35, 35, 35, 35, 35, 35, 36, 36, 36, 36, 36, 36, 37, 37, 37, 37,
    37, 37, 38, 38, 38, 38, 38, 38, 39, 39, 39, 39, 39, 40, 40, 40, 40, 40, 41, 41, 41, 41, 41, 41, 42,
    42, 42, 42, 42, 43, 43, 43, 43, 43, 44, 44, 44, 44, 44, 45, 45, 45, 45, 46, 46, 46, 46, 46, 47, 47,
    47, 47, 47, 48, 48, 48, 48, 49, 49, 49, 49, 49, 50, 50, 50, 50, 51, 51, 51, 51, 52, 52, 52, 52, 52,
    53, 53, 53, 53, 54, 54, 54, 54, 55, 55, 55, 55, 56, 56, 56, 56, 57, 57, 57, 57, 58, 58, 58, 59, 59,
    59, 59, 60, 60, 60, 60, 61, 61, 61, 61, 62, 62, 62, 63, 63, 63, 63, 64, 64, 64, 65, 65, 65, 65, 66,
    66, 66, 67, 67, 67, 68, 68, 68, 68, 69, 69, 69, 70, 70, 70, 71, 71, 71, 72, 72, 72, 72, 73, 73, 73,
    74, 74, 74, 75, 75, 75, 76, 76, 76, 77, 77, 77, 78, 78, 78, 79, 79, 79, 80, 80, 81, 81, 81, 82, 82,
    82, 83, 83, 83, 84, 84, 84, 85, 85, 86, 86, 86, 87, 87, 87, 88, 88, 89, 89, 89, 90, 90, 91, 91, 91,
    92, 92, 93, 93, 93, 94, 94, 95, 95, 95, 96, 96, 97, 97, 97, 98, 98, 99, 99, 100, 100, 100, 101, 101, 102,
    102, 103, 103, 103, 104, 104, 105, 105, 106, 106, 107, 107, 107, 108, 108, 109, 109, 110, 110, 111, 111, 112, 112, 113, 113,
    113, 114, 114, 115, 115, 116, 116, 117, 117, 118, 118, 119, 119, 120, 120, 121, 121, 122, 122, 123, 123, 124, 124, 125, 126,
    126, 127, 127, 128, 128, 129, 129, 130, 130, 131, 131, 132, 133, 133, 134, 134, 135, 135, 136, 136, 137, 138, 138, 139, 139,
    140, 140, 141, 142, 142, 143, 143, 144, 145, 145, 146, 146, 147, 148, 148, 149, 149, 150, 151, 151, 152, 152, 153, 154, 154,
    155, 156, 156, 157, 158, 158, 159, 159, 160, 161, 161, 162, 163, 163, 164, 165, 165, 166, 167, 167, 168, 169, 169, 170, 171,
    172, 172, 173, 174, 174, 175, 176, 176, 177, 178, 179, 179, 180, 181, 181, 182, 183, 184, 184, 185, 186, 187, 187, 188, 189,
    190, 190, 191, 192, 193, 194, 194, 195, 196, 197, 197, 198, 199, 200, 201, 201, 202, 203, 204, 205, 205, 206, 207, 208, 209,
    210, 210, 211, 212, 213, 214, 215, 215, 216, 217, 218, 219, 220, 221, 221, 222, 223, 224, 225, 226, 227, 228, 229, 229, 230,
    231, 232, 233, 234, 235, 236, 237, 238, 239, 240, 241, 241, 242, 243, 244, 245, 246, 247, 248, 249, 250, 251, 252, 253, 254,
    255
  >>

\* Math.round(Math.pow(v / 255, 1 / 2) * 255) for v = k/10, k = 0..2550
\* (entry k+1).
PowTable200 ==
  <<
    0, 5, 7, 9, 10, 11, 12, 13, 14, 15, 16, 17, 17, 18, 19, 20, 20, 21, 21, 22, 23, 23, 24, 24, 25,
    25, 26, 26, 27, 27, 28, 28, 29, 29, 29, 30, 30, 31, 31, 32, 32, 32, 33, 33, 33, 34, 34, 35, 35, 35,
    36, 36, 36, 37, 37, 37, 38, 38, 38, 39, 39, 39, 40, 40, 40, 41, 41, 41, 42, 42, 42, 43, 43, 43, 43,
    44, 44, 44, 45, 45, 45, 45, 46, 46, 46, 47, 47, 47, 47, 48, 48, 48, 48, 49, 49, 49, 49, 50, 50, 50,
    50, 51, 51, 51, 51, 52, 52, 52, 52, 53, 53, 53, 53, 54, 54, 54, 54, 55, 55, 55, 55, 56, 56, 56, 56,
    56, 57, 57, 57, 57, 58, 58, 58, 58, 58, 59, 59, 59, 59, 60, 60, 60, 60, 60, 61, 61, 61, 61, 61, 62,
    62, 62, 62, 62, 63, 63, 63, 63, 63, 64, 64, 64, 64, 64, 65, 65, 65, 65, 65, 66, 66, 66, 66, 66, 67,
    67, 67, 67, 67, 68, 68, 68, 68, 68, 68, 69, 69, 69, 69, 69, 70, 70, 70, 70, 70, 71, 71, 71, 71, 71,
    71, 72, 72, 72, 72, 72, 72, 73, 73, 73, 73, 73, 74, 74, 74, 74, 74, 74, 75, 75, 75, 75, 75, 75, 76,
    76, 76, 76, 76, 76, 77, 77, 77, 77, 77, 77, 78, 78, 78, 78, 78, 78, 79, 79, 79, 79, 79, 79, 80, 80,
    80, 80, 80, 80, 80, 81, 81, 81, 81, 81, 81, 82, 82, 82, 82, 82, 82, 83, 83, 83, 83, 83, 83, 83, 84,
    84, 84, 84, 84, 84, 84, 85, 85, 85, 85, 85, 85, 86, 86, 86, 86, 86, 86, 86, 87, 87, 87, 87, 87, 87,
    87, 88, 88, 88, 88, 88, 88, 88, 89, 89, 89, 89, 89, 89, 89, 90, 90, 90, 90, 90, 90, 90, 91, 91, 91,
    91, 91, 91, 91, 92, 92, 92, 92, 92, 92, 92, 93, 93, 93, 93, 93, 93, 93, 94, 94, 94, 94, 94, 94, 94,
    94, 95, 95, 95, 95, 95, 95, 95, 96, 96, 96, 96, 96, 96, 96, 96, 97, 97, 97, 97, 97, 97, 97, 98, 98,
    98, 98, 98, 98, 98, 98, 99, 99, 99, 99, 99, 99, 99, 99, 100, 100, 100, 100, 100, 100, 100, 100, 101, 101, 101,
    101, 101, 101, 101, 101, 102, 102, 102, 102, 102, 102, 102, 102, 103, 103, 103, 103, 103, 103, 103, 103, 104, 104, 104, 104,
    104, 104, 104, 104, 105, 105, 105, 105, 105, 105, 105, 105, 106, 106, 106, 106, 106, 106, 106, 106, 107, 107, 107, 107, 107,
    107, 107, 107, 107, 108, 108, 108, 108, 108, 108, 108, 108, 109, 109, 109, 109, 109, 109, 109, 109, 109, 110, 110, 110, 110,
    110, 110, 110, 110, 111, 111, 111, 111, 111, 111, 111, 111, 111, 112, 112, 112, 112, 112, 112, 112, 112, 112, 113, 113, 113,
    113, 113, 113, 113, 113, 113, 114, 114, 114, 114, 114, 114, 114, 114, 114, 115, 115, 115, 115, 115, 115, 115, 115, 115, 116,
    116, 116, 116, 116, 116, 116, 116, 116, 117, 117, 117, 117, 117, 117, 117, 117, 117, 118, 118, 118, 118, 118, 118, 118, 118,
    118, 119, 119, 119, 119, 119, 119, 119, 119, 119, 119, 120, 120, 120, 120, 120, 120, 120, 120, 120, 121, 121, 121, 121, 121,
    121, 121, 121, 121, 122, 122, 122, 122, 122, 122, 122, 122, 122, 122, 123, 123, 123, 123, 123, 123, 123, 123, 123, 123, 124,
    124, 124, 124, 124, 124, 124, 124, 124, 125, 125, 125, 125, 125, 125, 125, 125, 125, 125, 126, 126, 126, 126, 126, 126, 126,
    126, 126, 126, 127, 127, 127, 127, 127, 127, 127, 127, 127, 127, 128, 128, 128, 128, 128, 128, 128, 128, 128, 128, 129, 129,
    129, 129, 129, 129, 129, 129, 129, 129, 130, 130, 130, 130, 130, 130, 130, 130, 130, 130, 131, 131, 131, 131, 131, 131, 131,
    131, 131, 131, 131, 132, 132, 132, 132, 132, 132, 132, 132, 132, 132, 133, 133, 133, 133, 133, 133, 133, 133, 133, 133, 134,
    134, 134, 134, 134, 134, 134, 134, 134, 134, 134, 135, 135, 135, 135, 135, 135, 135, 135, 135, 135, 135, 136, 136, 136, 136,
    136, 136, 136, 136, 136, 136, 137, 137, 137, 137, 137, 137, 137, 137, 137, 137, 137, 138, 138, 138, 138, 138, 138, 138, 138,
    138, 138, 138, 139, 139, 139, 139, 139, 139, 139, 139, 139, 139, 139, 140, 140, 140, 140, 140, 140, 140, 140, 140, 140, 140,
    141, 141, 141, 141, 141, 141, 141, 141, 141, 141, 141, 142, 142, 142, 142, 142, 142, 142, 142, 142, 142, 142, 143, 143, 143,
    143, 143, 143, 143, 143, 143, 143, 143, 144, 144, 144, 144, 144, 144, 144, 144, 144, 144, 144, 145, 145, 145, 145, 145, 145,
    145, 145, 145, 145, 145, 145, 146, 146, 146, 146, 146, 146, 146, 146, 146, 146, 146, 147, 147, 147, 147, 147, 147, 147, 147,
    147, 147, 147, 147, 148, 148, 148, 148, 148, 148, 148, 148, 148, 148, 148, 149, 149, 149, 149, 149, 149, 149, 149, 149, 149,
    149, 149, 150, 150, 150, 150, 150, 150, 150, 150, 150, 150, 150, 150, 151, 151, 151, 151, 151, 151, 151, 151, 151, 151, 151,
    151, 152, 152, 152, 152, 152, 152, 152, 152, 152, 152, 152, 152, 153, 153, 153, 153, 153, 153, 153, 153, 153, 153, 153, 153,
    154, 154, 154, 154, 154, 154, 154, 154, 154, 154, 154, 154, 155, 155, 155, 155, 155, 155, 155, 155, 155, 155, 155, 155, 156,
    156, 156, 156, 156, 156, 156, 156, 156, 156, 156, 156, 157, 157, 157, 157, 157, 157, 157, 157, 157, 157, 157, 157, 158, 158,
    158, 158, 158, 158, 158, 158, 158, 158, 158, 158, 158, 159, 159, 159, 159, 159, 159, 159, 159, 159, 159, 159, 159, 160, 160,
    160, 160, 160, 160, 160, 160, 160, 160, 160, 160, 160, 161, 161, 161, 161, 161, 161, 161, 161, 161, 161, 161, 161, 162, 162,
    162, 162, 162, 162, 162, 162, 162, 162, 162, 162, 162, 163, 163, 163, 163, 163, 163, 163, 163, 163, 163, 163, 163, 163, 164,
    164, 164, 164, 164, 164, 164, 164, 164, 164, 164, 164, 164, 165, 165, 165, 165, 165, 165, 165, 165, 165, 165, 165, 165, 165,
    166, 166, 166, 166, 166, 166, 166, 166, 166, 166, 166, 166, 166, 167, 167, 167, 167, 167, 167, 167, 167, 167, 167, 167, 167,
    167, 168, 168, 168, 168, 168, 168, 168, 168, 168, 168, 168, 168, 168, 169, 169, 169, 169, 169, 169, 169, 169, 169, 169, 169,
    169, 169, 170, 170, 170, 170, 170, 170, 170, 170, 170, 170, 170, 170, 170, 170, 171, 171, 171, 171, 171, 171, 171, 171, 171,
    171, 171, 171, 171, 172, 172, 172, 172, 172, 172, 172, 172, 172, 172, 172, 172, 172, 173, 173, 173, 173, 173, 173, 173, 173,
    173, 173, 173, 173, 173, 173, 174, 174, 174, 174, 174, 174, 174, 174, 174, 174, 174, 174, 174, 174, 175, 175, 175, 175, 175,
    175, 175, 175, 175, 175, 175, 175, 175, 176, 176, 176, 176, 176, 176, 176, 176, 176, 176, 176, 176, 176, 176, 177, 177, 177,
    177, 177, 177, 177, 177, 177, 177, 177, 177, 177, 177, 178, 178, 178, 178, 178, 178, 178, 178, 178, 178, 178, 178, 178, 178,
    179, 179, 179, 179, 179, 179, 179, 179, 179, 179, 179, 179, 179, 179, 180, 180, 180, 180, 180, 180, 180, 180, 180, 180, 180,
    180, 180, 180, 181, 181, 181, 181, 181, 181, 181, 181, 181, 181, 181, 181, 181, 181, 182, 182, 182, 182, 182, 182, 182, 182,
    182, 182, 182, 182, 182, 182, 182, 183, 183, 183, 183, 183, 183, 183, 183, 183, 183, 183, 183, 183, 183, 184, 184, 184, 184,
    184, 184, 184, 184, 184, 184, 184, 184, 184, 184, 185, 185, 185, 185, 185, 185, 185, 185, 185, 185, 185, 185, 185, 185, 185,
    186, 186, 186, 186, 186, 186, 186, 186, 186, 186, 186, 186, 186, 186, 186, 187, 187, 187, 187, 187, 187, 187, 187, 187, 187,
    187, 187, 187, 187, 188, 188, 188, 188, 188, 188, 188, 188, 188, 188, 188, 188, 188, 188, 188, 189, 189, 189, 189, 189, 189,
    189, 189, 189, 189, 189, 189, 189, 189, 189, 190, 190, 190, 190, 190, 190, 190, 190, 190, 190, 190, 190, 190, 190, 190, 191,
    191, 191, 191, 191, 191, 191, 191, 191, 191, 191, 191, 191, 191, 191, 192, 192, 192, 192, 192, 192, 192, 192, 192, 192, 192,
    192, 192, 192, 192, 193, 193, 193, 193, 193, 193, 193, 193, 193, 193, 193, 193, 193, 193, 193, 194, 194, 194, 194, 194, 194,
    194, 194, 194, 194, 194, 194, 194, 194, 194, 195, 195, 195, 195, 195, 195, 195, 195, 195, 195, 195, 195, 195, 195, 195, 196,
    196, 196, 196, 196, 196, 196, 196, 196, 196, 196, 196, 196, 196, 196, 196, 197, 197, 197, 197, 197, 197, 197, 197, 197, 197,
    197, 197, 197, 197, 197, 198, 198, 198, 198, 198, 198, 198, 198, 198, 198, 198, 198, 198, 198, 198, 198, 199, 199, 199, 199,
    199, 199, 199, 199, 199, 199, 199, 199, 199, 199, 199, 200, 200, 200, 200, 200, 200, 200, 200, 200, 200, 200, 200, 200, 200,
    200, 200, 201, 201, 201, 201, 201, 201, 201, 201, 201, 201, 201, 201, 201, 201, 201, 201, 202, 202, 202, 202, 202, 202, 202,
    202, 202, 202, 202, 202, 202, 202, 202, 202, 203, 203, 203, 203, 203, 203, 203, 203, 203, 203, 203, 203, 203, 203, 203, 203,
    204, 204, 204, 204, 204, 204, 204, 204, 204, 204, 204, 204, 204, 204, 204, 204, 205, 205, 205, 205, 205, 205, 205, 205, 205,
    205, 205, 205, 205, 205, 205, 205, 206, 206, 206, 206, 206, 206, 206, 206, 206, 206, 206, 206, 206, 206, 206, 206, 207, 207,
    207, 207, 207, 207, 207, 207, 207, 207, 207, 207, 207, 207, 207, 207, 208, 208, 208, 208, 208, 208, 208, 208, 208, 208, 208,
    208, 208, 208, 208, 208, 209, 209, 209, 209, 209, 209, 209, 209, 209, 209, 209, 209, 209, 209, 209, 209, 209, 210, 210, 210,
    210, 210, 210, 210, 210, 210, 210, 210, 210, 210, 210, 210, 210, 211, 211, 211, 211, 211, 211, 211, 211, 211, 211, 211, 211,
    211, 211, 211, 211, 211, 212, 212, 212, 212, 212, 212, 212, 212, 212, 212, 212, 212, 212, 212, 212, 212, 213, 213, 213, 213,
    213, 213, 213, 213, 213, 213, 213, 213, 213, 213, 213, 213, 213, 214, 214, 214, 214, 214, 214, 214, 214, 214, 214, 214, 214,
    214, 214, 214, 214, 214, 215, 215, 215, 215, 215, 215, 215, 215, 215, 215, 215, 215, 215, 215, 215, 215, 215, 216, 216, 216,
    216, 216, 216, 216, 216, 216, 216, 216, 216, 216, 216, 216, 216, 216, 217, 217, 217, 217, 217, 217, 217, 217, 217, 217, 217,
    217, 217, 217, 217, 217, 217, 218, 218, 218, 218, 218, 218, 218, 218, 218, 218, 218, 218, 218, 218, 218, 218, 218, 219, 219,
    219, 219, 219, 219, 219, 219, 219, 219, 219, 219, 219, 219, 219, 219, 219, 220, 220, 220, 220, 220, 220, 220, 220, 220, 220,
    220, 220, 220, 220, 220, 220, 220, 221, 221, 221, 221, 221, 221, 221, 221, 221, 221, 221, 221, 221, 221, 221, 221, 221, 221,
    222, 222, 222, 222, 222, 222, 222, 222, 222, 222, 222, 222, 222, 222, 222, 222, 222, 223, 223, 223, 223, 223, 223, 223, 223,
    223, 223, 223, 223, 223, 223, 223, 223, 223, 224, 224, 224, 224, 224, 224, 224, 224, 224, 224, 224, 224, 224, 224, 224, 224,
    224, 224, 225, 225, 225, 225, 225, 225, 225, 225, 225, 225, 225, 225, 225, 225, 225, 225, 225, 225, 226, 226, 226, 226, 226,
    226, 226, 226, 226, 226, 226, 226, 226, 226, 226, 226, 226, 227, 227, 227, 227, 227, 227, 227, 227, 227, 227, 227, 227, 227,
    227, 227, 227, 227, 227, 228, 228, 228, 228, 228, 228, 228, 228, 228, 228, 228, 228, 228, 228, 228, 228, 228, 228, 229, 229,
    229, 229, 229, 229, 229, 229, 229, 229, 229, 229, 229, 229, 229, 229, 229, 229, 230, 230, 230, 230, 230, 230, 230, 230, 230,
    230, 230, 230, 230, 230, 230, 230, 230, 230, 231, 231, 231, 231, 231, 231, 231, 231, 231, 231, 231, 231, 231, 231, 231, 231,
    231, 231, 232, 232, 232, 232, 232, 232, 232, 232, 232, 232, 232, 232, 232, 232, 232, 232, 232, 232, 233, 233, 233, 233, 233,
    233, 233, 233, 233, 233, 233, 233, 233, 233, 233, 233, 233, 233, 233, 234, 234, 234, 234, 234, 234, 234, 234, 234, 234, 234,
    234, 234, 234, 234, 234, 234, 234, 235, 235, 235, 235, 235, 235, 235, 235, 235, 235, 235, 235, 235, 235, 235, 235, 235, 235,
    236, 236, 236, 236, 236, 236, 236, 236, 236, 236, 236, 236, 236, 236, 236, 236, 236, 236, 236, 237, 237, 237, 237, 237, 237,
    237, 237, 237, 237, 237, 237, 237, 237, 237, 237, 237, 237, 237, 238, 238, 238, 238, 238, 238, 238, 238, 238, 238, 238, 238,
    238, 238, 238, 238, 238, 238, 239, 239, 239, 239, 239, 239, 239, 239, 239, 239, 239, 239, 239, 239, 239, 239, 239, 239, 239,
    240, 240, 240, 240, 240, 240, 240, 240, 240, 240, 240, 240, 240, 240, 240, 240, 240, 240, 240, 241, 241, 241, 241, 241, 241,
    241, 241, 241, 241, 241, 241, 241, 241, 241, 241, 241, 241, 241, 242, 242, 242, 242, 242, 242, 242, 242, 242, 242, 242, 242,
    242, 242, 242, 242, 242, 242, 242, 243, 243, 243, 243, 243, 243, 243, 243, 243, 243, 243, 243, 243, 243, 243, 243, 243, 243,
    243, 244, 244, 244, 244, 244, 244, 244, 244, 244, 244, 244, 244, 244, 244, 244, 244, 244, 244, 244, 245, 245, 245, 245, 245,
    245, 245, 245, 245, 245, 245, 245, 245, 245, 245, 245, 245, 245, 245, 246, 246, 246, 246, 246, 246, 246, 246, 246, 246, 246,
    246, 246, 246, 246, 246, 246, 246, 246, 247, 247, 247, 247, 247, 247, 247, 247, 247, 247, 247, 247, 247, 247, 247, 247, 247,
    247, 247, 247, 248, 248, 248, 248, 248, 248, 248, 248, 248, 248, 248, 248, 248, 248, 248, 248, 248, 248, 248, 249, 249, 249,
    249, 249, 249, 249, 249, 249, 249, 249, 249, 249, 249, 249, 249, 249, 249, 249, 249, 250, 250, 250, 250, 250, 250, 250, 250,
    250, 250, 250, 250, 250, 250, 250, 250, 250, 250, 250, 251, 251, 251, 251, 251, 251, 251, 251, 251, 251, 251, 251, 251, 251,
    251, 251, 251, 251, 251, 251, 252, 252, 252, 252, 252, 252, 252, 252, 252, 252, 252, 252, 252, 252, 252, 252, 252, 252, 252,
    252, 253, 253, 253, 253, 253, 253, 253, 253, 253, 253, 253, 253, 253, 253, 253, 253, 253, 253, 253, 253, 254, 254, 254, 254,
    254, 254, 254, 254, 254, 254, 254, 254, 254, 254, 254, 254, 254, 254, 254, 254, 255, 255, 255, 255, 255, 255, 255, 255, 255,
    255
  >>

\* Math.round((1 / (1 + Math.exp(-(v / 127.5 - 1) * -2)) * 2 - 1 + 1) * 127.5)
\* for v = k/10, k = 0..2550 (entry k+1); -2 = (0 - 1) * 3 + 1.
SigmoidTableMinus200 ==
  <<
    225, 225, 225, 224, 224, 224, 224, 224, 224, 224, 224, 224, 224, 224, 224, 224, 224, 224, 224, 224, 224, 224, 224, 224, 224,
    224, 223, 223, 223, 223, 223, 223, 223, 223, 223, 223, 223, 223, 223, 223, 223, 223, 223, 223, 223, 223, 223, 223, 223, 222,
    222, 222, 222, 222, 222, 222, 222, 222, 222, 222, 222, 222, 222, 222, 222, 222, 222, 222, 222, 222, 222, 221, 221, 221, 221,
    221, 221, 221, 221, 221, 221, 221, 221, 221, 221, 221, 221, 221, 221, 221, 221, 221, 221, 220, 220, 220, 220, 220, 220, 220,
    220, 220, 220, 220, 220, 220, 220, 220, 220, 220, 220, 220, 220, 220, 219, 219, 219, 219, 219, 219, 219, 219, 219, 219, 219,
    219, 219, 219, 219, 219, 219, 219, 219, 219, 219, 218, 218, 218, 218, 218, 218, 218, 218, 218, 218, 218, 218, 218, 218, 218,
    218, 218, 218, 218, 218, 217, 217, 217, 217, 217, 217, 217, 217, 217, 217, 217, 217, 217, 217, 217, 217, 217, 217, 217, 217,
    216, 216, 216, 216, 216, 216, 216, 216, 216, 216, 216, 216, 216, 216, 216, 216, 216, 216, 216, 215, 215, 215, 215, 215, 215,
    215, 215, 215, 215, 215, 215, 215, 215, 215, 215, 215, 215, 215, 214, 214, 214, 214, 214, 214, 214, 214, 214, 214, 214, 214,
    214, 214, 214, 214, 214, 214, 213, 213, 213, 213, 213, 213, 213, 213, 213, 213, 213, 213, 213, 213, 213, 213, 213, 213, 212,
    212, 212, 212, 212, 212, 212, 212, 212, 212, 212, 212, 212, 212, 212, 212, 212, 212, 211, 211, 211, 211, 211, 211, 211, 211,
    211, 211, 211, 211, 211, 211, 211, 211, 211, 211, 210, 210, 210, 210, 210, 210, 210, 210, 210, 210, 210, 210, 210, 210, 210,
    210, 210, 209, 209, 209, 209, 209, 209, 209, 209, 209, 209, 209, 209, 209, 209, 209, 209, 209, 208, 208, 208, 208, 208, 208,
    208, 208, 208, 208, 208, 208, 208, 208, 208, 208, 208, 207, 207, 207, 207, 207, 207, 207, 207, 207, 207, 207, 207, 207, 207,
    207, 207, 206, 206, 206, 206, 206, 206, 206, 206, 206, 206, 206, 206, 206, 206, 206, 206, 205, 205, 205, 205, 205, 205, 205,
    205, 205, 205, 205, 205, 205, 205, 205, 205, 204, 204, 204, 204, 204, 204, 204, 204, 204, 204, 204, 204, 204, 204, 204, 204,
    203, 203, 203, 203, 203, 203, 203, 203, 203, 203, 203, 203, 203, 203, 203, 202, 202, 202, 202, 202, 202, 202, 202, 202, 202,
    202, 202, 202, 202, 202, 201, 201, 201, 201, 201, 201, 201, 201, 201, 201, 201, 201, 201, 201, 201, 200, 200, 200, 200, 200,
    200, 200, 200, 200, 200, 200, 200, 200, 200, 200, 199, 199, 199, 199, 199, 199, 199, 199, 199, 199, 199, 199, 199, 199, 198,
    198, 198, 198, 198, 198, 198, 198, 198, 198, 198, 198, 198, 198, 198, 197, 197, 197, 197, 197, 197, 197, 197, 197, 197, 197,
    197, 197, 197, 196, 196, 196, 196, 196, 196, 196, 196, 196, 196, 196, 196, 196, 196, 195, 195, 195, 195, 195, 195, 195, 195,
    195, 195, 195, 195, 195, 195, 194, 194, 194, 194, 194, 194, 194, 194, 194, 194, 194, 194, 194, 194, 193, 193, 193, 193, 193,
    193, 193, 193, 193, 193, 193, 193, 193, 192, 192, 192, 192, 192, 192, 192, 192, 192, 192, 192, 192, 192, 192, 191, 191, 191,
    191, 191, 191, 191, 191, 191, 191, 191, 191, 191, 190, 190, 190, 190, 190, 190, 190, 190, 190, 190, 190, 190, 190, 189, 189,
    189, 189, 189, 189, 189, 189, 189, 189, 189, 189, 189, 188, 188, 188, 188, 188, 188, 188, 188, 188, 188, 188, 188, 188, 187,
    187, 187, 187, 187, 187, 187, 187, 187, 187, 187, 187, 187, 186, 186, 186, 186, 186, 186, 186, 186, 186, 186, 186, 186, 186,
    185, 185, 185, 185, 185, 185, 185, 185, 185, 185, 185, 185, 184, 184, 184, 184, 184, 184, 184, 184, 184, 184, 184, 184, 184,
    183, 183, 183, 183, 183, 183, 183, 183, 183, 183, 183, 183, 182, 182, 182, 182, 182, 182, 182, 182, 182, 182, 182, 182, 181,
    181, 181, 181, 181, 181, 181, 181, 181, 181, 181, 181, 180, 180, 180, 180, 180, 180, 180, 180, 180, 180, 180, 180, 179, 179,
    179, 179, 179, 179, 179, 179, 179, 179, 179, 179, 178, 178, 178, 178, 178, 178, 178, 178, 178, 178, 178, 178, 177, 177, 177,
    177, 177, 177, 177, 177, 177, 177, 177, 177, 176, 176, 176, 176, 176, 176, 176, 176, 176, 176, 176, 176, 175, 175, 175, 175,
    175, 175, 175, 175, 175, 175, 175, 174, 174, 174, 174, 174, 174, 174, 174, 174, 174, 174, 174, 173, 173, 173, 173, 173, 173,
    173, 173, 173, 173, 173, 172, 172, 172, 172, 172, 172, 172, 172, 172, 172, 172, 172, 171, 171, 171, 171, 171, 171, 171, 171,
    171, 171, 171, 170, 170, 170, 170, 170, 170, 170, 170, 170, 170, 170, 169, 169, 169, 169, 169, 169, 169, 169, 169, 169, 169,
    168, 168, 168, 168, 168, 168, 168, 168, 168, 168, 168, 168, 167, 167, 167, 167, 167, 167, 167, 167, 167, 167, 167, 166, 166,
    166, 166, 166, 166, 166, 166, 166, 166, 166, 165, 165, 165, 165, 165, 165, 165, 165, 165, 165, 165, 164, 164, 164, 164, 164,
    164, 164, 164, 164, 164, 163, 163, 163, 163, 163, 163, 163, 163, 163, 163, 163, 162, 162, 162, 162, 162, 162, 162, 162, 162,
    162, 162, 161, 161, 161, 161, 161, 161, 161, 161, 161, 161, 161, 160, 160, 160, 160, 160, 160, 160, 160, 160, 160, 160, 159,
    159, 159, 159, 159, 159, 159, 159, 159, 159, 158, 158, 158, 158, 158, 158, 158, 158, 158, 158, 158, 157, 157, 157, 157, 157,
    157, 157, 157, 157, 157, 156, 156, 156, 156, 156, 156, 156, 156, 156, 156, 156, 155, 155, 155, 155, 155, 155, 155, 155, 155,
    155, 154, 154, 154, 154, 154, 154, 154, 154, 154, 154, 154, 153, 153, 153, 153, 153, 153, 153, 153, 153, 153, 152, 152, 152,
    152, 152, 152, 152, 152, 152, 152, 152, 151, 151, 151, 151, 151, 151, 151, 151, 151, 151, 150, 150, 150, 150, 150, 150, 150,
    150, 150, 150, 149, 149, 149, 149, 149, 149, 149, 149, 149, 149, 149, 148, 148, 148, 148, 148, 148, 148, 148, 148, 148, 147,
    147, 147, 147, 147, 147, 147, 147, 147, 147, 146, 146, 146, 146, 146, 146, 146, 146, 146, 146, 145, 145, 145, 145, 145, 145,
    145, 145, 145, 145, 144, 144, 144, 144, 144, 144, 144, 144, 144, 144, 144, 143, 143, 143, 143, 143, 143, 143, 143, 143, 143,
    142, 142, 142, 142, 142, 142, 142, 142, 142, 142, 141, 141, 141, 141, 141, 141, 141, 141, 141, 141, 140, 140, 140, 140, 140,
    140, 140, 140, 140, 140, 139, 139, 139, 139, 139, 139, 139, 139, 139, 139, 138, 138, 138, 138, 138, 138, 138, 138, 138, 138,
    137, 137, 137, 137, 137, 137, 137, 137, 137, 137, 136, 136, 136, 136, 136, 136, 136, 136, 136, 136, 135, 135, 135, 135, 135,
    135, 135, 135, 135, 135, 134, 134, 134, 134, 134, 134, 134, 134, 134, 134, 133, 133, 133, 133, 133, 133, 133, 133, 133, 133,
    132, 132, 132, 132, 132, 132, 132, 132, 132, 132, 131, 131, 131, 131, 131, 131, 131, 131, 131, 131, 130, 130, 130, 130, 130,
    130, 130, 130, 130, 130, 129, 129, 129, 129, 129, 129, 129, 129, 129, 129, 128, 128, 128, 128, 128, 128, 128, 128, 128, 128,
    128, 127, 127, 127, 127, 127, 127, 127, 127, 127, 127, 126, 126, 126, 126, 126, 126, 126, 126, 126, 126, 125, 125, 125, 125,
    125, 125, 125, 125, 125, 125, 124, 124, 124, 124, 124, 124, 124, 124, 124, 124, 123, 123, 123, 123, 123, 123, 123, 123, 123,
    123, 122, 122, 122, 122, 122, 122, 122, 122, 122, 122, 121, 121, 121, 121, 121, 121, 121, 121, 121, 121, 120, 120, 120, 120,
    120, 120, 120, 120, 120, 120, 119, 119, 119, 119, 119, 119, 119, 119, 119, 119, 118, 118, 118, 118, 118, 118, 118, 118, 118,
    118, 117, 117, 117, 117, 117, 117, 117, 117, 117, 117, 116, 116, 116, 116, 116, 116, 116, 116, 116, 116, 115, 115, 115, 115,
    115, 115, 115, 115, 115, 115, 114, 114, 114, 114, 114, 114, 114, 114, 114, 114, 113, 113, 113, 113, 113, 113, 113, 113, 113,
    113, 112, 112, 112, 112, 112, 112, 112, 112, 112, 112, 111, 111, 111, 111, 111, 111, 111, 111, 111, 111, 111, 110, 110, 110,
    110, 110, 110, 110, 110, 110, 110, 109, 109, 109, 109, 109, 109, 109, 109, 109, 109, 108, 108, 108, 108, 108, 108, 108, 108,
    108, 108, 107, 107, 107, 107, 107, 107, 107, 107, 107, 107, 106, 106, 106, 106, 106, 106, 106, 106, 106, 106, 106, 105, 105,
    105, 105, 105, 105, 105, 105, 105, 105, 104, 104, 104, 104, 104, 104, 104, 104, 104, 104, 103, 103, 103, 103, 103, 103, 103,
    103, 103, 103, 103, 102, 102, 102, 102, 102, 102, 102, 102, 102, 102, 101, 101, 101, 101, 101, 101, 101, 101, 101, 101, 101,
    100, 100, 100, 100, 100, 100, 100, 100, 100, 100, 99, 99, 99, 99, 99, 99, 99, 99, 99, 99, 99, 98, 98, 98, 98,
    98, 98, 98, 98, 98, 98, 97, 97, 97, 97, 97, 97, 97, 97, 97, 97, 97, 96, 96, 96, 96, 96, 96, 96, 96,
    96, 96, 95, 95, 95, 95, 95, 95, 95, 95, 95, 95, 95, 94, 94, 94, 94, 94, 94, 94, 94, 94, 94, 94, 93,
    93, 93, 93, 93, 93, 93, 93, 93, 93, 93, 92, 92, 92, 92, 92, 92, 92, 92, 92, 92, 92, 91, 91, 91, 91,
    91, 91, 91, 91, 91, 91, 90, 90, 90, 90, 90, 90, 90, 90, 90, 90, 90, 89, 89, 89, 89, 89, 89, 89, 89,
    89, 89, 89, 88, 88, 88, 88, 88, 88, 88, 88, 88, 88, 88, 87, 87, 87, 87, 87, 87, 87, 87, 87, 87, 87,
    87, 86, 86, 86, 86, 86, 86, 86, 86, 86, 86, 86, 85, 85, 85, 85, 85, 85, 85, 85, 85, 85, 85, 84, 84,
    84, 84, 84, 84, 84, 84, 84, 84, 84, 83, 83, 83, 83, 83, 83, 83, 83, 83, 83, 83, 83, 82, 82, 82, 82,
    82, 82, 82, 82, 82, 82, 82, 81, 81, 81, 81, 81, 81, 81, 81, 81, 81, 81, 81, 80, 80, 80, 80, 80, 80,
    80, 80, 80, 80, 80, 79, 79, 79, 79, 79, 79, 79, 79, 79, 79, 79, 79, 78, 78, 78, 78, 78, 78, 78, 78,
    78, 78, 78, 78, 77, 77, 77, 77, 77, 77, 77, 77, 77, 77, 77, 77, 76, 76, 76, 76, 76, 76, 76, 76, 76,
    76, 76, 76, 75, 75, 75, 75, 75, 75, 75, 75, 75, 75, 75, 75, 74, 74, 74, 74, 74, 74, 74, 74, 74, 74,
    74, 74, 73, 73, 73, 73, 73, 73, 73, 73, 73, 73, 73, 73, 72, 72, 72, 72, 72, 72, 72, 72, 72, 72, 72,
    72, 71, 71, 71, 71, 71, 71, 71, 71, 71, 71, 71, 71, 71, 70, 70, 70, 70, 70, 70, 70, 70, 70, 70, 70,
    70, 69, 69, 69, 69, 69, 69, 69, 69, 69, 69, 69, 69, 69, 68, 68, 68, 68, 68, 68, 68, 68, 68, 68, 68,
    68, 68, 67, 67, 67, 67, 67, 67, 67, 67, 67, 67, 67, 67, 67, 66, 66, 66, 66, 66, 66, 66, 66, 66, 66,
    66, 66, 66, 65, 65, 65, 65, 65, 65, 65, 65, 65, 65, 65, 65, 65, 64, 64, 64, 64, 64, 64, 64, 64, 64,
    64, 64, 64, 64, 63, 63, 63, 63, 63, 63, 63, 63, 63, 63, 63, 63, 63, 63, 62, 62, 62, 62, 62, 62, 62,
    62, 62, 62, 62, 62, 62, 61, 61, 61, 61, 61, 61, 61, 61, 61, 61, 61, 61, 61, 61, 60, 60, 60, 60, 60,
    60, 60, 60, 60, 60, 60, 60, 60, 60, 59, 59, 59, 59, 59, 59, 59, 59, 59, 59, 59, 59, 59, 59, 58, 58,
    58, 58, 58, 58, 58, 58, 58, 58, 58, 58, 58, 58, 57, 57, 57, 57, 57, 57, 57, 57, 57, 57, 57, 57, 57,
    57, 57, 56, 56, 56, 56, 56, 56, 56, 56, 56, 56, 56, 56, 56, 56, 55, 55, 55, 55, 55, 55, 55, 55, 55,
    55, 55, 55, 55, 55, 55, 54, 54, 54, 54, 54, 54, 54, 54, 54, 54, 54, 54, 54, 54, 54, 53, 53, 53, 53,
    53, 53, 53, 53, 53, 53, 53, 53, 53, 53, 53, 52, 52, 52, 52, 52, 52, 52, 52, 52, 52, 52, 52, 52, 52,
    52, 51, 51, 51, 51, 51, 51, 51, 51, 51, 51, 51, 51, 51, 51, 51, 51, 50, 50, 50, 50, 50, 50, 50, 50,
    50, 50, 50, 50, 50, 50, 50, 50, 49, 49, 49, 49, 49, 49, 49, 49, 49, 49, 49, 49, 49, 49, 49, 49, 48,
    48, 48, 48, 48, 48, 48, 48, 48, 48, 48, 48, 48, 48, 48, 48, 47, 47, 47, 47, 47, 47, 47, 47, 47, 47,
    47, 47, 47, 47, 47, 47, 47, 46, 46, 46, 46, 46, 46, 46, 46, 46, 46, 46, 46, 46, 46, 46, 46, 46, 45,
    45, 45, 45, 45, 45, 45, 45, 45, 45, 45, 45, 45, 45, 45, 45, 45, 44, 44, 44, 44, 44, 44, 44, 44, 44,
    44, 44, 44, 44, 44, 44, 44, 44, 44, 43, 43, 43, 43, 43, 43, 43, 43, 43, 43, 43, 43, 43, 43, 43, 43,
    43, 43, 42, 42, 42, 42, 42, 42, 42, 42, 42, 42, 42, 42, 42, 42, 42, 42, 42, 42, 41, 41, 41, 41, 41,
    41, 41, 41, 41, 41, 41, 41, 41, 41, 41, 41, 41, 41, 40, 40, 40, 40, 40, 40, 40, 40, 40, 40, 40, 40,
    40, 40, 40, 40, 40, 40, 40, 39, 39, 39, 39, 39, 39, 39, 39, 39, 39, 39, 39, 39, 39, 39, 39, 39, 39,
    39, 38, 38, 38, 38, 38, 38, 38, 38, 38, 38, 38, 38, 38, 38, 38, 38, 38, 38, 38, 38, 37, 37, 37, 37,
    37, 37, 37, 37, 37, 37, 37, 37, 37, 37, 37, 37, 37, 37, 37, 37, 36, 36, 36, 36, 36, 36, 36, 36, 36,
    36, 36, 36, 36, 36, 36, 36, 36, 36, 36, 36, 36, 35, 35, 35, 35, 35, 35, 35, 35, 35, 35, 35, 35, 35,
    35, 35, 35, 35, 35, 35, 35, 35, 34, 34, 34, 34, 34, 34, 34, 34, 34, 34, 34, 34, 34, 34, 34, 34, 34,
    34, 34, 34, 34, 34, 33, 33, 33, 33, 33, 33, 33, 33, 33, 33, 33, 33, 33, 33, 33, 33, 33, 33, 33, 33,
    33, 33, 32, 32, 32, 32, 32, 32, 32, 32, 32, 32, 32, 32, 32, 32, 32, 32, 32, 32, 32, 32, 32, 32, 32,
    31, 31, 31, 31, 31, 31, 31, 31, 31, 31, 31, 31, 31, 31, 31, 31, 31, 31, 31, 31, 31, 31, 31, 30, 30,
    30
  >>

\* Math.round((1 / (1 + Math.exp(-(v / 127.5 - 1) * -1.997)) * 2 - 1 + 1) * 127.5)
\* for v = k/10, k = 0..2550 (entry k+1); -1.997 = (0.001 - 1) * 3 + 1.
SigmoidTableMinus1997 ==
  <<
    225, 224, 224, 224, 224, 224, 224, 224, 224, 224, 224, 224, 224, 224, 224, 224, 224, 224, 224, 224, 224, 224, 224, 224, 223,
    223, 223, 223, 223, 223, 223, 223, 223, 223, 223, 223, 223, 223, 223, 223, 223, 223, 223, 223, 223, 223, 223, 222, 222, 222,
    222, 222, 222, 222, 222, 222, 222, 222, 222, 222, 222, 222, 222, 222, 222, 222, 222, 222, 222, 222, 221, 221, 221, 221, 221,
    221, 221, 221, 221, 221, 221, 221, 221, 221, 221, 221, 221, 221, 221, 221, 221, 220, 220, 220, 220, 220, 220, 220, 220, 220,
    220, 220, 220, 220, 220, 220, 220, 220, 220, 220, 220, 220, 219, 219, 219, 219, 219, 219, 219, 219, 219, 219, 219, 219, 219,
    219, 219, 219, 219, 219, 219, 219, 219, 218, 218, 218, 218, 218, 218, 218, 218, 218, 218, 218, 218, 218, 218, 218, 218, 218,
    218, 218, 218, 217, 217, 217, 217, 217, 217, 217, 217, 217, 217, 217, 217, 217, 217, 217, 217, 217, 217, 217, 217, 216, 216,
    216, 216, 216, 216, 216, 216, 216, 216, 216, 216, 216, 216, 216, 216, 216, 216, 216, 215, 215, 215, 215, 215, 215, 215, 215,
    215, 215, 215, 215, 215, 215, 215, 215, 215, 215, 215, 214, 214, 214, 214, 214, 214, 214, 214, 214, 214, 214, 214, 214, 214,
    214, 214, 214, 214, 214, 213, 213, 213, 213, 213, 213, 213, 213, 213, 213, 213, 213, 213, 213, 213, 213, 213, 213, 212, 212,
    212, 212, 212, 212, 212, 212, 212, 212, 212, 212, 212, 212, 212, 212, 212, 212, 211, 211, 211, 211, 211, 211, 211, 211, 211,
    211, 211, 211, 211, 211, 211, 211, 211, 210, 210, 210, 210, 210, 210, 210, 210, 210, 210, 210, 210, 210, 210, 210, 210, 210,
    210, 209, 209, 209, 209, 209, 209, 209, 209, 209, 209, 209, 209, 209, 209, 209, 209, 209, 208, 208, 208, 208, 208, 208, 208,
    208, 208, 208, 208, 208, 208, 208, 208, 208, 207, 207, 207, 207, 207, 207, 207, 207, 207, 207, 207, 207, 207, 207, 207, 207,
    207, 206, 206, 206, 206, 206, 206, 206, 206, 206, 206, 206, 206, 206, 206, 206, 206, 205, 205, 205, 205, 205, 205, 205, 205,
    205, 205, 205, 205, 205, 205, 205, 205, 204, 204, 204, 204, 204, 204, 204, 204, 204, 204, 204, 204, 204, 204, 204, 203, 203,
    203, 203, 203, 203, 203, 203, 203, 203, 203, 203, 203, 203, 203, 203, 202, 202, 202, 202, 202, 202, 202, 202, 202, 202, 202,
    202, 202, 202, 202, 201, 201, 201, 201, 201, 201, 201, 201, 201, 201, 201, 201, 201, 201, 201, 200, 200, 200, 200, 200, 200,
    200, 200, 200, 200, 200, 200, 200, 200, 200, 199, 199, 199, 199, 199, 199, 199, 199, 199, 199, 199, 199, 199, 199, 198, 198,
    198, 198, 198, 198, 198, 198, 198, 198, 198, 198, 198, 198, 198, 197, 197, 197, 197, 197, 197, 197, 197, 197, 197, 197, 197,
    197, 197, 196, 196, 196, 196, 196, 196, 196, 196, 196, 196, 196, 196, 196, 196, 195, 195, 195, 195, 195, 195, 195, 195, 195,
    195, 195, 195, 195, 195, 194, 194, 194, 194, 194, 194, 194, 194, 194, 194, 194, 194, 194, 194, 193, 193, 193, 193, 193, 193,
    193, 193, 193, 193, 193, 193, 193, 192, 192, 192, 192, 192, 192, 192, 192, 192, 192, 192, 192, 192, 192, 191, 191, 191, 191,
    191, 191, 191, 191, 191, 191, 191, 191, 191, 190, 190, 190, 190, 190, 190, 190, 190, 190, 190, 190, 190, 190, 189, 189, 189,
    189, 189, 189, 189, 189, 189, 189, 189, 189, 189, 188, 188, 188, 188, 188, 188, 188, 188, 188, 188, 188, 188, 188, 187, 187,
    187, 187, 187, 187, 187, 187, 187, 187, 187, 187, 187, 186, 186, 186, 186, 186, 186, 186, 186, 186, 186, 186, 186, 186, 185,
    185, 185, 185, 185, 185, 185, 185, 185, 185, 185, 185, 184, 184, 184, 184, 184, 184, 184, 184, 184, 184, 184, 184, 184, 183,
    183, 183, 183, 183, 183, 183, 183, 183, 183, 183, 183, 182, 182, 182, 182, 182, 182, 182, 182, 182, 182, 182, 182, 181, 181,
    181, 181, 181, 181, 181, 181, 181, 181, 181, 181, 181, 180, 180, 180, 180, 180, 180, 180, 180, 180, 180, 180, 180, 179, 179,
    179, 179, 179, 179, 179, 179, 179, 179, 179, 179, 178, 178, 178, 178, 178, 178, 178, 178, 178, 178, 178, 177, 177, 177, 177,
    177, 177, 177, 177, 177, 177, 177, 177, 176, 176, 176, 176, 176, 176, 176, 176, 176, 176, 176, 176, 175, 175, 175, 175, 175,
    175, 175, 175, 175, 175, 175, 175, 174, 174, 174, 174, 174, 174, 174, 174, 174, 174, 174, 173, 173, 173, 173, 173, 173, 173,
    173, 173, 173, 173, 173, 172, 172, 172, 172, 172, 172, 172, 172, 172, 172, 172, 171, 171, 171, 171, 171, 171, 171, 171, 171,
    171, 171, 170, 170, 170, 170, 170, 170, 170, 170, 170, 170, 170, 170, 169, 169, 169, 169, 169, 169, 169, 169, 169, 169, 169,
    168, 168, 168, 168, 168, 168, 168, 168, 168, 168, 168, 167, 167, 167, 167, 167, 167, 167, 167, 167, 167, 167, 166, 166, 166,
    166, 166, 166, 166, 166, 166, 166, 166, 165, 165, 165, 165, 165, 165, 165, 165, 165, 165, 165, 164, 164, 164, 164, 164, 164,
    164, 164, 164, 164, 164, 163, 163, 163, 163, 163, 163, 163, 163, 163, 163, 163, 162, 162, 162, 162, 162, 162, 162, 162, 162,
    162, 162, 161, 161, 161, 161, 161, 161, 161, 161, 161, 161, 160, 160, 160, 160, 160, 160, 160, 160, 160, 160, 160, 159, 159,
    159, 159, 159, 159, 159, 159, 159, 159, 159, 158, 158, 158, 158, 158, 158, 158, 158, 158, 158, 157, 157, 157, 157, 157, 157,
    157, 157, 157, 157, 157, 156, 156, 156, 156, 156, 156, 156, 156, 156, 156, 155, 155, 155, 155, 155, 155, 155, 155, 155, 155,
    155, 154, 154, 154, 154, 154, 154, 154, 154, 154, 154, 153, 153, 153, 153, 153, 153, 153, 153, 153, 153, 153, 152, 152, 152,
    152, 152, 152, 152, 152, 152, 152, 151, 151, 151, 151, 151, 151, 151, 151, 151, 151, 151, 150, 150, 150, 150, 150, 150, 150,
    150, 150, 150, 149, 149, 149, 149, 149, 149, 149, 149, 149, 149, 148, 148, 148, 148, 148, 148, 148, 148, 148, 148, 148, 147,
    147, 147, 147, 147, 147, 147, 147, 147, 147, 146, 146, 146, 146, 146, 146, 146, 146, 146, 146, 145, 145, 145, 145, 145, 145,
    145, 145, 145, 145, 144, 144, 144, 144, 144, 144, 144, 144, 144, 144, 143, 143, 143, 143, 143, 143, 143, 143, 143, 143, 143,
    142, 142, 142, 142, 142, 142, 142, 142, 142, 142, 141, 141, 141, 141, 141, 141, 141, 141, 141, 141, 140, 140, 140, 140, 140,
    140, 140, 140, 140, 140, 139, 139, 139, 139, 139, 139, 139, 139, 139, 139, 138, 138, 138, 138, 138, 138, 138, 138, 138, 138,
    137, 137, 137, 137, 137, 137, 137, 137, 137, 137, 136, 136, 136, 136, 136, 136, 136, 136, 136, 136, 135, 135, 135, 135, 135,
    135, 135, 135, 135, 135, 134, 134, 134, 134, 134, 134, 134, 134, 134, 134, 133, 133, 133, 133, 133, 133, 133, 133, 133, 133,
    132, 132, 132, 132, 132, 132, 132, 132, 132, 132, 131, 131, 131, 131, 131, 131, 131, 131, 131, 131, 130, 130, 130, 130, 130,
    130, 130, 130, 130, 130, 129, 129, 129, 129, 129, 129, 129, 129, 129, 129, 128, 128, 128, 128, 128, 128, 128, 128, 128, 128,
    128, 127, 127, 127, 127, 127, 127, 127, 127, 127, 127, 126, 126, 126, 126, 126, 126, 126, 126, 126, 126, 125, 125, 125, 125,
    125, 125, 125, 125, 125, 125, 124, 124, 124, 124, 124, 124, 124, 124, 124, 124, 123, 123, 123, 123, 123, 123, 123, 123, 123,
    123, 122, 122, 122, 122, 122, 122, 122, 122, 122, 122, 121, 121, 121, 121, 121, 121, 121, 121, 121, 121, 120, 120, 120, 120,
    120, 120, 120, 120, 120, 120, 119, 119, 119, 119, 119, 119, 119, 119, 119, 119, 118, 118, 118, 118, 118, 118, 118, 118, 118,
    118, 117, 117, 117, 117, 117, 117, 117, 117, 117, 117, 116, 116, 116, 116, 116, 116, 116, 116, 116, 116, 115, 115, 115, 115,
    115, 115, 115, 115, 115, 115, 114, 114, 114, 114, 114, 114, 114, 114, 114, 114, 113, 113, 113, 113, 113, 113, 113, 113, 113,
    113, 112, 112, 112, 112, 112, 112, 112, 112, 112, 112, 112, 111, 111, 111, 111, 111, 111, 111, 111, 111, 111, 110, 110, 110,
    110, 110, 110, 110, 110, 110, 110, 109, 109, 109, 109, 109, 109, 109, 109, 109, 109, 108, 108, 108, 108, 108, 108, 108, 108,
    108, 108, 107, 107, 107, 107, 107, 107, 107, 107, 107, 107, 107, 106, 106, 106, 106, 106, 106, 106, 106, 106, 106, 105, 105,
    105, 105, 105, 105, 105, 105, 105, 105, 104, 104, 104, 104, 104, 104, 104, 104, 104, 104, 104, 103, 103, 103, 103, 103, 103,
    103, 103, 103, 103, 102, 102, 102, 102, 102, 102, 102, 102, 102, 102, 102, 101, 101, 101, 101, 101, 101, 101, 101, 101, 101,
    100, 100, 100, 100, 100, 100, 100, 100, 100, 100, 100, 99, 99, 99, 99, 99, 99, 99, 99, 99, 99, 98, 98, 98, 98,
    98, 98, 98, 98, 98, 98, 98, 97, 97, 97, 97, 97, 97, 97, 97, 97, 97, 96, 96, 96, 96, 96, 96, 96, 96,
    96, 96, 96, 95, 95, 95, 95, 95, 95, 95, 95, 95, 95, 95, 94, 94, 94, 94, 94, 94, 94, 94, 94, 94, 93,
    93, 93, 93, 93, 93, 93, 93, 93, 93, 93, 92, 92, 92, 92, 92, 92, 92, 92, 92, 92, 92, 91, 91, 91, 91,
    91, 91, 91, 91, 91, 91, 91, 90, 90, 90, 90, 90, 90, 90, 90, 90, 90, 90, 89, 89, 89, 89, 89, 89, 89,
    89, 89, 89, 89, 88, 88, 88, 88, 88, 88, 88, 88, 88, 88, 88, 87, 87, 87, 87, 87, 87, 87, 87, 87, 87,
    87, 86, 86, 86, 86, 86, 86, 86, 86, 86, 86, 86, 85, 85, 85, 85, 85, 85, 85, 85, 85, 85, 85, 85, 84,
    84, 84, 84, 84, 84, 84, 84, 84, 84, 84, 83, 83, 83, 83, 83, 83, 83, 83, 83, 83, 83, 82, 82, 82, 82,
    82, 82, 82, 82, 82, 82, 82, 82, 81, 81, 81, 81, 81, 81, 81, 81, 81, 81, 81, 80, 80, 80, 80, 80, 80,
    80, 80, 80, 80, 80, 80, 79, 79, 79, 79, 79, 79, 79, 79, 79, 79, 79, 79, 78, 78, 78, 78, 78, 78, 78,
    78, 78, 78, 78, 78, 77, 77, 77, 77, 77, 77, 77, 77, 77, 77, 77, 76, 76, 76, 76, 76, 76, 76, 76, 76,
    76, 76, 76, 75, 75, 75, 75, 75, 75, 75, 75, 75, 75, 75, 75, 74, 74, 74, 74, 74, 74, 74, 74, 74, 74,
    74, 74, 74, 73, 73, 73, 73, 73, 73, 73, 73, 73, 73, 73, 73, 72, 72, 72, 72, 72, 72, 72, 72, 72, 72,
    72, 72, 71, 71, 71, 71, 71, 71, 71, 71, 71, 71, 71, 71, 71, 70, 70, 70, 70, 70, 70, 70, 70, 70, 70,
    70, 70, 69, 69, 69, 69, 69, 69, 69, 69, 69, 69, 69, 69, 69, 68, 68, 68, 68, 68, 68, 68, 68, 68, 68,
    68, 68, 68, 67, 67, 67, 67, 67, 67, 67, 67, 67, 67, 67, 67, 67, 66, 66, 66, 66, 66, 66, 66, 66, 66,
    66, 66, 66, 66, 65, 65, 65, 65, 65, 65, 65, 65, 65, 65, 65, 65, 65, 64, 64, 64, 64, 64, 64, 64, 64,
    64, 64, 64, 64, 64, 63, 63, 63, 63, 63, 63, 63, 63, 63, 63, 63, 63, 63, 63, 62, 62, 62, 62, 62, 62,
    62, 62, 62, 62, 62, 62, 62, 61, 61, 61, 61, 61, 61, 61, 61, 61, 61, 61, 61, 61, 61, 60, 60, 60, 60,
    60, 60, 60, 60, 60, 60, 60, 60, 60, 60, 59, 59, 59, 59, 59, 59, 59, 59, 59, 59, 59, 59, 59, 59, 58,
    58, 58, 58, 58, 58, 58, 58, 58, 58, 58, 58, 58, 58, 57, 57, 57, 57, 57, 57, 57, 57, 57, 57, 57, 57,
    57, 57, 57, 56, 56, 56, 56, 56, 56, 56, 56, 56, 56, 56, 56, 56, 56, 55, 55, 55, 55, 55, 55, 55, 55,
    55, 55, 55, 55, 55, 55, 55, 54, 54, 54, 54, 54, 54, 54, 54, 54, 54, 54, 54, 54, 54, 54, 53, 53, 53,
    53, 53, 53, 53, 53, 53, 53, 53, 53, 53, 53, 53, 52, 52, 52, 52, 52, 52, 52, 52, 52, 52, 52, 52, 52,
    52, 52, 52, 51, 51, 51, 51, 51, 51, 51, 51, 51, 51, 51, 51, 51, 51, 51, 50, 50, 50, 50, 50, 50, 50,
    50, 50, 50, 50, 50, 50, 50, 50, 50, 49, 49, 49, 49, 49, 49, 49, 49, 49, 49, 49, 49, 49, 49, 49, 49,
    48, 48, 48, 48, 48, 48, 48, 48, 48, 48, 48, 48, 48, 48, 48, 48, 48, 47, 47, 47, 47, 47, 47, 47, 47,
    47, 47, 47, 47, 47, 47, 47, 47, 46, 46, 46, 46, 46, 46, 46, 46, 46, 46, 46, 46, 46, 46, 46, 46, 46,
    45, 45, 45, 45, 45, 45, 45, 45, 45, 45, 45, 45, 45, 45, 45, 45, 45, 45, 44, 44, 44, 44, 44, 44, 44,
    44, 44, 44, 44, 44, 44, 44, 44, 44, 44, 43, 43, 43, 43, 43, 43, 43, 43, 43, 43, 43, 43, 43, 43, 43,
    43, 43, 43, 42, 42, 42, 42, 42, 42, 42, 42, 42, 42, 42, 42, 42, 42, 42, 42, 42, 42, 41, 41, 41, 41,
    41, 41, 41, 41, 41, 41, 41, 41, 41, 41, 41, 41, 41, 41, 41, 40, 40, 40, 40, 40, 40, 40, 40, 40, 40,
    40, 40, 40, 40, 40, 40, 40, 40, 40, 39, 39, 39, 39, 39, 39, 39, 39, 39, 39, 39, 39, 39, 39, 39, 39,
    39, 39, 39, 38, 38, 38, 38, 38, 38, 38, 38, 38, 38, 38, 38, 38, 38, 38, 38, 38, 38, 38, 38, 37, 37,
    37, 37, 37, 37, 37, 37, 37, 37, 37, 37, 37, 37, 37, 37, 37, 37, 37, 37, 36, 36, 36, 36, 36, 36, 36,
    36, 36, 36, 36, 36, 36, 36, 36, 36, 36, 36, 36, 36, 36, 35, 35, 35, 35, 35, 35, 35, 35, 35, 35, 35,
    35, 35, 35, 35, 35, 35, 35, 35, 35, 35, 34, 34, 34, 34, 34, 34, 34, 34, 34, 34, 34, 34, 34, 34, 34,
    34, 34, 34, 34, 34, 34, 33, 33, 33, 33, 33, 33, 33, 33, 33, 33, 33, 33, 33, 33, 33, 33, 33, 33, 33,
    33, 33, 33, 33, 32, 32, 32, 32, 32, 32, 32, 32, 32, 32, 32, 32, 32, 32, 32, 32, 32, 32, 32, 32, 32,
    32, 32, 31, 31, 31, 31, 31, 31, 31, 31, 31, 31, 31, 31, 31, 31, 31, 31, 31, 31, 31, 31, 31, 31, 31,
    30
  >>

\* Math.round((1 / (1 + Math.exp(-(v / 127.5 - 1) * 1)) * 2 - 1 + 1) * 127.5)
\* for v = k/10, k = 0..2550 (entry k+1); 1 = (1.0 - 1) * 3 + 1.
SigmoidTable100 ==
  <<
    69, 69, 69, 69, 69, 69, 69, 69, 69, 69, 69, 69, 69, 69, 69, 69, 69, 69, 69, 69, 69, 69, 69, 69, 70,
    70, 70, 70, 70, 70, 70, 70, 70, 70, 70, 70, 70, 70, 70, 70, 70, 70, 70, 70, 70, 70, 70, 70, 70, 71,
    71, 71, 71, 71, 71, 71, 71, 71, 71, 71, 71, 71, 71, 71, 71, 71, 71, 71, 71, 71, 71, 71, 71, 71, 72,
    72, 72, 72, 72, 72, 72, 72, 72, 72, 72, 72, 72, 72, 72, 72, 72, 72, 72, 72, 72, 72, 72, 72, 73, 73,
    73, 73, 73, 73, 73, 73, 73, 73, 73, 73, 73, 73, 73, 73, 73, 73, 73, 73, 73, 73, 73, 73, 73, 74, 74,
    74, 74, 74, 74, 74, 74, 74, 74, 74, 74, 74, 74, 74, 74, 74, 74, 74, 74, 74, 74, 74, 74, 75, 75, 75,
    75, 75, 75, 75, 75, 75, 75, 75, 75, 75, 75, 75, 75, 75, 75, 75, 75, 75, 75, 75, 75, 76, 76, 76, 76,
    76, 76, 76, 76, 76, 76, 76, 76, 76, 76, 76, 76, 76, 76, 76, 76, 76, 76, 76, 76, 77, 77, 77, 77, 77,
    77, 77, 77, 77, 77, 77, 77, 77, 77, 77, 77, 77, 77, 77, 77, 77, 77, 77, 77, 78, 78, 78, 78, 78, 78,
    78, 78, 78, 78, 78, 78, 78, 78, 78, 78, 78, 78, 78, 78, 78, 78, 78, 79, 79, 79, 79, 79, 79, 79, 79,
    79, 79, 79, 79, 79, 79, 79, 79, 79, 79, 79, 79, 79, 79, 79, 79, 80, 80, 80, 80, 80, 80, 80, 80, 80,
    80, 80, 80, 80, 80, 80, 80, 80, 80, 80, 80, 80, 80, 80, 81, 81, 81, 81, 81, 81, 81, 81, 81, 81, 81,
    81, 81, 81, 81, 81, 81, 81, 81, 81, 81, 81, 81, 82, 82, 82, 82, 82, 82, 82, 82, 82, 82, 82, 82, 82,
    82, 82, 82, 82, 82, 82, 82, 82, 82, 82, 83, 83, 83, 83, 83, 83, 83, 83, 83, 83, 83, 83, 83, 83, 83,
    83, 83, 83, 83, 83, 83, 83, 83, 84, 84, 84, 84, 84, 84, 84, 84, 84, 84, 84, 84, 84, 84, 84, 84, 84,
    84, 84, 84, 84, 84, 85, 85, 85, 85, 85, 85, 85, 85, 85, 85, 85, 85, 85, 85, 85, 85, 85, 85, 85, 85,
    85, 85, 85, 86, 86, 86, 86, 86, 86, 86, 86, 86, 86, 86, 86, 86, 86, 86, 86, 86, 86, 86, 86, 86, 86,
    87, 87, 87, 87, 87, 87, 87, 87, 87, 87, 87, 87, 87, 87, 87, 87, 87, 87, 87, 87, 87, 87, 87, 88, 88,
    88, 88, 88, 88, 88, 88, 88, 88, 88, 88, 88, 88, 88, 88, 88, 88, 88, 88, 88, 88, 89, 89, 89, 89, 89,
    89, 89, 89, 89, 89, 89, 89, 89, 89, 89, 89, 89, 89, 89, 89, 89, 89, 90, 90, 90, 90, 90, 90, 90, 90,
    90, 90, 90, 90, 90, 90, 90, 90, 90, 90, 90, 90, 90, 90, 91, 91, 91, 91, 91, 91, 91, 91, 91, 91, 91,
    91, 91, 91, 91, 91, 91, 91, 91, 91, 91, 92, 92, 92, 92, 92, 92, 92, 92, 92, 92, 92, 92, 92, 92, 92,
    92, 92, 92, 92, 92, 92, 92, 93, 93, 93, 93, 93, 93, 93, 93, 93, 93, 93, 93, 93, 93, 93, 93, 93, 93,
    93, 93, 93, 93, 94, 94, 94, 94, 94, 94, 94, 94, 94, 94, 94, 94, 94, 94, 94, 94, 94, 94, 94, 94, 94,
    95, 95, 95, 95, 95, 95, 95, 95, 95, 95, 95, 95, 95, 95, 95, 95, 95, 95, 95, 95, 95, 95, 96, 96, 96,
    96, 96, 96, 96, 96, 96, 96, 96, 96, 96, 96, 96, 96, 96, 96, 96, 96, 96, 97, 97, 97, 97, 97, 97, 97,
    97, 97, 97, 97, 97, 97, 97, 97, 97, 97, 97, 97, 97, 97, 98, 98, 98, 98, 98, 98, 98, 98, 98, 98, 98,
    98, 98, 98, 98, 98, 98, 98, 98, 98, 98, 99, 99, 99, 99, 99, 99, 99, 99, 99, 99, 99, 99, 99, 99, 99,
    99, 99, 99, 99, 99, 99, 100, 100, 100, 100, 100, 100, 100, 100, 100, 100, 100, 100, 100, 100, 100, 100, 100, 100, 100,
    100, 100, 101, 101, 101, 101, 101, 101, 101, 101, 101, 101, 101, 101, 101, 101, 101, 101, 101, 101, 101, 101, 101, 102, 102,
    102, 102, 102, 102, 102, 102, 102, 102, 102, 102, 102, 102, 102, 102, 102, 102, 102, 102, 102, 103, 103, 103, 103, 103, 103,
    103, 103, 103, 103, 103, 103, 103, 103, 103, 103, 103, 103, 103, 103, 103, 104, 104, 104, 104, 104, 104, 104, 104, 104, 104,
    104, 104, 104, 104, 104, 104, 104, 104, 104, 104, 105, 105, 105, 105, 105, 105, 105, 105, 105, 105, 105, 105, 105, 105, 105,
    105, 105, 105, 105, 105, 105, 106, 106, 106, 106, 106, 106, 106, 106, 106, 106, 106, 106, 106, 106, 106, 106, 106, 106, 106,
    106, 106, 107, 107, 107, 107, 107, 107, 107, 107, 107, 107, 107, 107, 107, 107, 107, 107, 107, 107, 107, 107, 108, 108, 108,
    108, 108, 108, 108, 108, 108, 108, 108, 108, 108, 108, 108, 108, 108, 108, 108, 108, 108, 109, 109, 109, 109, 109, 109, 109,
    109, 109, 109, 109, 109, 109, 109, 109, 109, 109, 109, 109, 109, 110, 110, 110, 110, 110, 110, 110, 110, 110, 110, 110, 110,
    110, 110, 110, 110, 110, 110, 110, 110, 111, 111, 111, 111, 111, 111, 111, 111, 111, 111, 111, 111, 111, 111, 111, 111, 111,
    111, 111, 111, 111, 112, 112, 112, 112, 112, 112, 112, 112, 112, 112, 112, 112, 112, 112, 112, 112, 112, 112, 112, 112, 113,
    113, 113, 113, 113, 113, 113, 113, 113, 113, 113, 113, 113, 113, 113, 113, 113, 113, 113, 113, 114, 114, 114, 114, 114, 114,
    114, 114, 114, 114, 114, 114, 114, 114, 114, 114, 114, 114, 114, 114, 114, 115, 115, 115, 115, 115, 115, 115, 115, 115, 115,
    115, 115, 115, 115, 115, 115, 115, 115, 115, 115, 116, 116, 116, 116, 116, 116, 116, 116, 116, 116, 116, 116, 116, 116, 116,
    116, 116, 116, 116, 116, 117, 117, 117, 117, 117, 117, 117, 117, 117, 117, 117, 117, 117, 117, 117, 117, 117, 117, 117, 117,
    118, 118, 118, 118, 118, 118, 118, 118, 118, 118, 118, 118, 118, 118, 118, 118, 118, 118, 118, 118, 119, 119, 119, 119, 119,
    119, 119, 119, 119, 119, 119, 119, 119, 119, 119, 119, 119, 119, 119, 119, 120, 120, 120, 120, 120, 120, 120, 120, 120, 120,
    120, 120, 120, 120, 120, 120, 120, 120, 120, 120, 121, 121, 121, 121, 121, 121, 121, 121, 121, 121, 121, 121, 121, 121, 121,
    121, 121, 121, 121, 121, 122, 122, 122, 122, 122, 122, 122, 122, 122, 122, 122, 122, 122, 122, 122, 122, 122, 122, 122, 122,
    123, 123, 123, 123, 123, 123, 123, 123, 123, 123, 123, 123, 123, 123, 123, 123, 123, 123, 123, 123, 124, 124, 124, 124, 124,
    124, 124, 124, 124, 124, 124, 124, 124, 124, 124, 124, 124, 124, 124, 124, 125, 125, 125, 125, 125, 125, 125, 125, 125, 125,
    125, 125, 125, 125, 125, 125, 125, 125, 125, 125, 126, 126, 126, 126, 126, 126, 126, 126, 126, 126, 126, 126, 126, 126, 126,
    126, 126, 126, 126, 126, 127, 127, 127, 127, 127, 127, 127, 127, 127, 127, 127, 127, 127, 127, 127, 127, 127, 127, 127, 127,
    128, 128, 128, 128, 128, 128, 128, 128, 128, 128, 128, 128, 128, 128, 128, 128, 128, 128, 128, 128, 128, 129, 129, 129, 129,
    129, 129, 129, 129, 129, 129, 129, 129, 129, 129, 129, 129, 129, 129, 129, 129, 130, 130, 130, 130, 130, 130, 130, 130, 130,
    130, 130, 130, 130, 130, 130, 130, 130, 130, 130, 130, 131, 131, 131, 131, 131, 131, 131, 131, 131, 131, 131, 131, 131, 131,
    131, 131, 131, 131, 131, 131, 132, 132, 132, 132, 132, 132, 132, 132, 132, 132, 132, 132, 132, 132, 132, 132, 132, 132, 132,
    132, 133, 133, 133, 133, 133, 133, 133, 133, 133, 133, 133, 133, 133, 133, 133, 133, 133, 133, 133, 133, 134, 134, 134, 134,
    134, 134, 134, 134, 134, 134, 134, 134, 134, 134, 134, 134, 134, 134, 134, 134, 135, 135, 135, 135, 135, 135, 135, 135, 135,
    135, 135, 135, 135, 135, 135, 135, 135, 135, 135, 135, 136, 136, 136, 136, 136, 136, 136, 136, 136, 136, 136, 136, 136, 136,
    136, 136, 136, 136, 136, 136, 137, 137, 137, 137, 137, 137, 137, 137, 137, 137, 137, 137, 137, 137, 137, 137, 137, 137, 137,
    137, 138, 138, 138, 138, 138, 138, 138, 138, 138, 138, 138, 138, 138, 138, 138, 138, 138, 138, 138, 138, 139, 139, 139, 139,
    139, 139, 139, 139, 139, 139, 139, 139, 139, 139, 139, 139, 139, 139, 139, 139, 140, 140, 140, 140, 140, 140, 140, 140, 140,
    140, 140, 140, 140, 140, 140, 140, 140, 140, 140, 140, 141, 141, 141, 141, 141, 141, 141, 141, 141, 141, 141, 141, 141, 141,
    141, 141, 141, 141, 141, 141, 141, 142, 142, 142, 142, 142, 142, 142, 142, 142, 142, 142, 142, 142, 142, 142, 142, 142, 142,
    142, 142, 143, 143, 143, 143, 143, 143, 143, 143, 143, 143, 143, 143, 143, 143, 143, 143, 143, 143, 143, 143, 144, 144, 144,
    144, 144, 144, 144, 144, 144, 144, 144, 144, 144, 144, 144, 144, 144, 144, 144, 144, 144, 145, 145, 145, 145, 145, 145, 145,
    145, 145, 145, 145, 145, 145, 145, 145, 145, 145, 145, 145, 145, 146, 146, 146, 146, 146, 146, 146, 146, 146, 146, 146, 146,
    146, 146, 146, 146, 146, 146, 146, 146, 147, 147, 147, 147, 147, 147, 147, 147, 147, 147, 147, 147, 147, 147, 147, 147, 147,
    147, 147, 147, 147, 148, 148, 148, 148, 148, 148, 148, 148, 148, 148, 148, 148, 148, 148, 148, 148, 148, 148, 148, 148, 149,
    149, 149, 149, 149, 149, 149, 149, 149, 149, 149, 149, 149, 149, 149, 149, 149, 149, 149, 149, 149, 150, 150, 150, 150, 150,
    150, 150, 150, 150, 150, 150, 150, 150, 150, 150, 150, 150, 150, 150, 150, 150, 151, 151, 151, 151, 151, 151, 151, 151, 151,
    151, 151, 151, 151, 151, 151, 151, 151, 151, 151, 151, 152, 152, 152, 152, 152, 152, 152, 152, 152, 152, 152, 152, 152, 152,
    152, 152, 152, 152, 152, 152, 152, 153, 153, 153, 153, 153, 153, 153, 153, 153, 153, 153, 153, 153, 153, 153, 153, 153, 153,
    153, 153, 153, 154, 154, 154, 154, 154, 154, 154, 154, 154, 154, 154, 154, 154, 154, 154, 154, 154, 154, 154, 154, 154, 155,
    155, 155, 155, 155, 155, 155, 155, 155, 155, 155, 155, 155, 155, 155, 155, 155, 155, 155, 155, 155, 156, 156, 156, 156, 156,
    156, 156, 156, 156, 156, 156, 156, 156, 156, 156, 156, 156, 156, 156, 156, 156, 157, 157, 157, 157, 157, 157, 157, 157, 157,
    157, 157, 157, 157, 157, 157, 157, 157, 157, 157, 157, 157, 158, 158, 158, 158, 158, 158, 158, 158, 158, 158, 158, 158, 158,
    158, 158, 158, 158, 158, 158, 158, 158, 159, 159, 159, 159, 159, 159, 159, 159, 159, 159, 159, 159, 159, 159, 159, 159, 159,
    159, 159, 159, 159, 160, 160, 160, 160, 160, 160, 160, 160, 160, 160, 160, 160, 160, 160, 160, 160, 160, 160, 160, 160, 160,
    160, 161, 161, 161, 161, 161, 161, 161, 161, 161, 161, 161, 161, 161, 161, 161, 161, 161, 161, 161, 161, 161, 162, 162, 162,
    162, 162, 162, 162, 162, 162, 162, 162, 162, 162, 162, 162, 162, 162, 162, 162, 162, 162, 162, 163, 163, 163, 163, 163, 163,
    163, 163, 163, 163, 163, 163, 163, 163, 163, 163, 163, 163, 163, 163, 163, 163, 164, 164, 164, 164, 164, 164, 164, 164, 164,
    164, 164, 164, 164, 164, 164, 164, 164, 164, 164, 164, 164, 165, 165, 165, 165, 165, 165, 165, 165, 165, 165, 165, 165, 165,
    165, 165, 165, 165, 165, 165, 165, 165, 165, 166, 166, 166, 166, 166, 166, 166, 166, 166, 166, 166, 166, 166, 166, 166, 166,
    166, 166, 166, 166, 166, 166, 167, 167, 167, 167, 167, 167, 167, 167, 167, 167, 167, 167, 167, 167, 167, 167, 167, 167, 167,
    167, 167, 167, 168, 168, 168, 168, 168, 168, 168, 168, 168, 168, 168, 168, 168, 168, 168, 168, 168, 168, 168, 168, 168, 168,
    168, 169, 169, 169, 169, 169, 169, 169, 169, 169, 169, 169, 169, 169, 169, 169, 169, 169, 169, 169, 169, 169, 169, 170, 170,
    170, 170, 170, 170, 170, 170, 170, 170, 170, 170, 170, 170, 170, 170, 170, 170, 170, 170, 170, 170, 170, 171, 171, 171, 171,
    171, 171, 171, 171, 171, 171, 171, 171, 171, 171, 171, 171, 171, 171, 171, 171, 171, 171, 172, 172, 172, 172, 172, 172, 172,
    172, 172, 172, 172, 172, 172, 172, 172, 172, 172, 172, 172, 172, 172, 172, 172, 173, 173, 173, 173, 173, 173, 173, 173, 173,
    173, 173, 173, 173, 173, 173, 173, 173, 173, 173, 173, 173, 173, 173, 174, 174, 174, 174, 174, 174, 174, 174, 174, 174, 174,
    174, 174, 174, 174, 174, 174, 174, 174, 174, 174, 174, 174, 175, 175, 175, 175, 175, 175, 175, 175, 175, 175, 175, 175, 175,
    175, 175, 175, 175, 175, 175, 175, 175, 175, 175, 176, 176, 176, 176, 176, 176, 176, 176, 176, 176, 176, 176, 176, 176, 176,
    176, 176, 176, 176, 176, 176, 176, 176, 176, 177, 177, 177, 177, 177, 177, 177, 177, 177, 177, 177, 177, 177, 177, 177, 177,
    177, 177, 177, 177, 177, 177, 177, 178, 178, 178, 178, 178, 178, 178, 178, 178, 178, 178, 178, 178, 178, 178, 178, 178, 178,
    178, 178, 178, 178, 178, 178, 179, 179, 179, 179, 179, 179, 179, 179, 179, 179, 179, 179, 179, 179, 179, 179, 179, 179, 179,
    179, 179, 179, 179, 179, 180, 180, 180, 180, 180, 180, 180, 180, 180, 180, 180, 180, 180, 180, 180, 180, 180, 180, 180, 180,
    180, 180, 180, 180, 181, 181, 181, 181, 181, 181, 181, 181, 181, 181, 181, 181, 181, 181, 181, 181, 181, 181, 181, 181, 181,
    181, 181, 181, 182, 182, 182, 182, 182, 182, 182, 182, 182, 182, 182, 182, 182, 182, 182, 182, 182, 182, 182, 182, 182, 182,
    182, 182, 182, 183, 183, 183, 183, 183, 183, 183, 183, 183, 183, 183, 183, 183, 183, 183, 183, 183, 183, 183, 183, 183, 183,
    183, 183, 184, 184, 184, 184, 184, 184, 184, 184, 184, 184, 184, 184, 184, 184, 184, 184, 184, 184, 184, 184, 184, 184, 184,
    184, 184, 185, 185, 185, 185, 185, 185, 185, 185, 185, 185, 185, 185, 185, 185, 185, 185, 185, 185, 185, 185, 185, 185, 185,
    185, 185, 186, 186, 186, 186, 186, 186, 186, 186, 186, 186, 186, 186, 186, 186, 186, 186, 186, 186, 186, 186, 186, 186, 186,
    186
  >>

\* Math.round((1 / (1 + Math.exp(-(v / 127.5 - 1) * 4)) * 2 - 1 + 1) * 127.5)
\* for v = k/10, k = 0..2550 (entry k+1); 4 = (2 - 1) * 3 + 1.
SigmoidTable400 ==
  <<
    5, 5, 5, 5, 5, 5, 5, 5, 5, 5, 5, 5, 5, 5, 5, 5, 5, 5, 5, 5, 5, 5, 5, 5, 5,
    5, 5, 5, 5, 5, 5, 5, 5, 5, 5, 5, 5, 5, 5, 5, 5, 5, 5, 5, 5, 5, 5, 5, 5, 5,
    5, 5, 5, 5, 5, 5, 5, 5, 5, 5, 6, 6, 6, 6, 6, 6, 6, 6, 6, 6, 6, 6, 6, 6, 6,
    6, 6, 6, 6, 6, 6, 6, 6, 6, 6, 6, 6, 6, 6, 6, 6, 6, 6, 6, 6, 6, 6, 6, 6, 6,
    6, 6, 6, 6, 6, 6, 6, 6, 6, 6, 6, 6, 6, 6, 7, 7, 7, 7, 7, 7, 7, 7, 7, 7, 7,
    7, 7, 7, 7, 7, 7, 7, 7, 7, 7, 7, 7, 7, 7, 7, 7, 7, 7, 7, 7, 7, 7, 7, 7, 7,
    7, 7, 7, 7, 7, 7, 7, 7, 7, 7, 7, 8, 8, 8, 8, 8, 8, 8, 8, 8, 8, 8, 8, 8, 8,
    8, 8, 8, 8, 8, 8, 8, 8, 8, 8, 8, 8, 8, 8, 8, 8, 8, 8, 8, 8, 8, 8, 8, 8, 8,
    8, 8, 9, 9, 9, 9, 9, 9, 9, 9, 9, 9, 9, 9, 9, 9, 9, 9, 9, 9, 9, 9, 9, 9, 9,
    9, 9, 9, 9, 9, 9, 9, 9, 9, 9, 9, 9, 9, 9, 10, 10, 10, 10, 10, 10, 10, 10, 10, 10, 10,
    10, 10, 10, 10, 10, 10, 10, 10, 10, 10, 10, 10, 10, 10, 10, 10, 10, 10, 10, 10, 10, 10, 11, 11, 11,
    11, 11, 11, 11, 11, 11, 11, 11, 11, 11, 11, 11, 11, 11, 11, 11, 11, 11, 11, 11, 11, 11, 11, 11, 11,
    11, 11, 12, 12, 12, 12, 12, 12, 12, 12, 12, 12, 12, 12, 12, 12, 12, 12, 12, 12, 12, 12, 12, 12, 12,
    12, 12, 12, 12, 12, 13, 13, 13, 13, 13, 13, 13, 13, 13, 13, 13, 13, 13, 13, 13, 13, 13, 13, 13, 13,
    13, 13, 13, 13, 13, 13, 14, 14, 14, 14, 14, 14, 14, 14, 14, 14, 14, 14, 14, 14, 14, 14, 14, 14, 14,
    14, 14, 14, 14, 14, 15, 15, 15, 15, 15, 15, 15, 15, 15, 15, 15, 15, 15, 15, 15, 15, 15, 15, 15, 15,
    15, 15, 15, 16, 16, 16, 16, 16, 16, 16, 16, 16, 16, 16, 16, 16, 16, 16, 16, 16, 16, 16, 16, 16, 17,
    17, 17, 17, 17, 17, 17, 17, 17, 17, 17, 17, 17, 17, 17, 17, 17, 17, 17, 17, 18, 18, 18, 18, 18, 18,
    18, 18, 18, 18, 18, 18, 18, 18, 18, 18, 18, 18, 18, 19, 19, 19, 19, 19, 19, 19, 19, 19, 19, 19, 19,
    19, 19, 19, 19, 19, 19, 20, 20, 20, 20, 20, 20, 20, 20, 20, 20, 20, 20, 20, 20, 20, 20, 20, 20, 21,
    21, 21, 21, 21, 21, 21, 21, 21, 21, 21, 21, 21, 21, 21, 21, 22, 22, 22, 22, 22, 22, 22, 22, 22, 22,
    22, 22, 22, 22, 22, 22, 23, 23, 23, 23, 23, 23, 23, 23, 23, 23, 23, 23, 23, 23, 23, 24, 24, 24, 24,
    24, 24, 24, 24, 24, 24, 24, 24, 24, 24, 24, 25, 25, 25, 25, 25, 25, 25, 25, 25, 25, 25, 25, 25, 25,
    26, 26, 26, 26, 26, 26, 26, 26, 26, 26, 26, 26, 26, 26, 27, 27, 27, 27, 27, 27, 27, 27, 27, 27, 27,
    27, 27, 28, 28, 28, 28, 28, 28, 28, 28, 28, 28, 28, 28, 28, 29, 29, 29, 29, 29, 29, 29, 29, 29, 29,
    29, 29, 30, 30, 30, 30, 30, 30, 30, 30, 30, 30, 30, 30, 31, 31, 31, 31, 31, 31, 31, 31, 31, 31, 31,
    31, 32, 32, 32, 32, 32, 32, 32, 32, 32, 32, 32, 33, 33, 33, 33, 33, 33, 33, 33, 33, 33, 33, 34, 34,
    34, 34, 34, 34, 34, 34, 34, 34, 34, 35, 35, 35, 35, 35, 35, 35, 35, 35, 35, 35, 36, 36, 36, 36, 36,
    36, 36, 36, 36, 36, 37, 37, 37, 37, 37, 37, 37, 37, 37, 37, 38, 38, 38, 38, 38, 38, 38, 38, 38, 38,
    39, 39, 39, 39, 39, 39, 39, 39, 39, 39, 40, 40, 40, 40, 40, 40, 40, 40, 40, 41, 41, 41, 41, 41, 41,
    41, 41, 41, 42, 42, 42, 42, 42, 42, 42, 42, 42, 43, 43, 43, 43, 43, 43, 43, 43, 43, 44, 44, 44, 44,
    44, 44, 44, 44, 44, 45, 45, 45, 45, 45, 45, 45, 45, 45, 46, 46, 46, 46, 46, 46, 46, 46, 47, 47, 47,
    47, 47, 47, 47, 47, 47, 48, 48, 48, 48, 48, 48, 48, 48, 49, 49, 49, 49, 49, 49, 49, 49, 50, 50, 50,
    50, 50, 50, 50, 50, 51, 51, 51, 51, 51, 51, 51, 51, 52, 52, 52, 52, 52, 52, 52, 53, 53, 53, 53, 53,
    53, 53, 53, 54, 54, 54, 54, 54, 54, 54, 55, 55, 55, 55, 55, 55, 55, 55, 56, 56, 56, 56, 56, 56, 56,
    57, 57, 57, 57, 57, 57, 57, 58, 58, 58, 58, 58, 58, 58, 59, 59, 59, 59, 59, 59, 59, 60, 60, 60, 60,
    60, 60, 60, 61, 61, 61, 61, 61, 61, 61, 62, 62, 62, 62, 62, 62, 62, 63, 63, 63, 63, 63, 63, 63, 64,
    64, 64, 64, 64, 64, 65, 65, 65, 65, 65, 65, 65, 66, 66, 66, 66, 66, 66, 67, 67, 67, 67, 67, 67, 67,
    68, 68, 68, 68, 68, 68, 69, 69, 69, 69, 69, 69, 69, 70, 70, 70, 70, 70, 70, 71, 71, 71, 71, 71, 71,
    72, 72, 72, 72, 72, 72, 73, 73, 73, 73, 73, 73, 74, 74, 74, 74, 74, 74, 75, 75, 75, 75, 75, 75, 76,
    76, 76, 76, 76, 76, 77, 77, 77, 77, 77, 77, 78, 78, 78, 78, 78, 78, 79, 79, 79, 79, 79, 79, 80, 80,
    80, 80, 80, 80, 81, 81, 81, 81, 81, 81, 82, 82, 82, 82, 82, 83, 83, 83, 83, 83, 83, 84, 84, 84, 84,
    84, 84, 85, 85, 85, 85, 85, 86, 86, 86, 86, 86, 86, 87, 87, 87, 87, 87, 87, 88, 88, 88, 88, 88, 89,
    89, 89, 89, 89, 89, 90, 90, 90, 90, 90, 91, 91, 91, 91, 91, 92, 92, 92, 92, 92, 92, 93, 93, 93, 93,
    93, 94, 94, 94, 94, 94, 94, 95, 95, 95, 95, 95, 96, 96, 96, 96, 96, 97, 97, 97, 97, 97, 97, 98, 98,
    98, 98, 98, 99, 99, 99, 99, 99, 100, 100, 100, 100, 100, 101, 101, 101, 101, 101, 101, 102, 102, 102, 102, 102, 103,
    103, 103, 103, 103, 104, 104, 104, 104, 104, 105, 105, 105, 105, 105, 106, 106, 106, 106, 106, 106, 107, 107, 107, 107, 107,
    108, 108, 108, 108, 108, 109, 109, 109, 109, 109, 110, 110, 110, 110, 110, 111, 111, 111, 111, 111, 112, 112, 112, 112, 112,
    113, 113, 113, 113, 113, 114, 114, 114, 114, 114, 115, 115, 115, 115, 115, 116, 116, 116, 116, 116, 117, 117, 117, 117, 117,
    118, 118, 118, 118, 118, 119, 119, 119, 119, 119, 120, 120, 120, 120, 120, 121, 121, 121, 121, 121, 122, 122, 122, 122, 122,
    123, 123, 123, 123, 123, 124, 124, 124, 124, 124, 125, 125, 125, 125, 125, 126, 126, 126, 126, 126, 127, 127, 127, 127, 127,
    128, 128, 128, 128, 128, 128, 129, 129, 129, 129, 129, 130, 130, 130, 130, 130, 131, 131, 131, 131, 131, 132, 132, 132, 132,
    132, 133, 133, 133, 133, 133, 134, 134, 134, 134, 134, 135, 135, 135, 135, 135, 136, 136, 136, 136, 136, 137, 137, 137, 137,
    137, 138, 138, 138, 138, 138, 139, 139, 139, 139, 139, 140, 140, 140, 140, 140, 141, 141, 141, 141, 141, 142, 142, 142, 142,
    142, 143, 143, 143, 143, 143, 144, 144, 144, 144, 144, 145, 145, 145, 145, 145, 146, 146, 146, 146, 146, 147, 147, 147, 147,
    147, 148, 148, 148, 148, 148, 149, 149, 149, 149, 149, 149, 150, 150, 150, 150, 150, 151, 151, 151, 151, 151, 152, 152, 152,
    152, 152, 153, 153, 153, 153, 153, 154, 154, 154, 154, 154, 154, 155, 155, 155, 155, 155, 156, 156, 156, 156, 156, 157, 157,
    157, 157, 157, 158, 158, 158, 158, 158, 158, 159, 159, 159, 159, 159, 160, 160, 160, 160, 160, 161, 161, 161, 161, 161, 161,
    162, 162, 162, 162, 162, 163, 163, 163, 163, 163, 163, 164, 164, 164, 164, 164, 165, 165, 165, 165, 165, 166, 166, 166, 166,
    166, 166, 167, 167, 167, 167, 167, 168, 168, 168, 168, 168, 168, 169, 169, 169, 169, 169, 169, 170, 170, 170, 170, 170, 171,
    171, 171, 171, 171, 171, 172, 172, 172, 172, 172, 172, 173, 173, 173, 173, 173, 174, 174, 174, 174, 174, 174, 175, 175, 175,
    175, 175, 175, 176, 176, 176, 176, 176, 176, 177, 177, 177, 177, 177, 177, 178, 178, 178, 178, 178, 178, 179, 179, 179, 179,
    179, 179, 180, 180, 180, 180, 180, 180, 181, 181, 181, 181, 181, 181, 182, 182, 182, 182, 182, 182, 183, 183, 183, 183, 183,
    183, 184, 184, 184, 184, 184, 184, 185, 185, 185, 185, 185, 185, 186, 186, 186, 186, 186, 186, 186, 187, 187, 187, 187, 187,
    187, 188, 188, 188, 188, 188, 188, 188, 189, 189, 189, 189, 189, 189, 190, 190, 190, 190, 190, 190, 190, 191, 191, 191, 191,
    191, 191, 192, 192, 192, 192, 192, 192, 192, 193, 193, 193, 193, 193, 193, 193, 194, 194, 194, 194, 194, 194, 194, 195, 195,
    195, 195, 195, 195, 195, 196, 196, 196, 196, 196, 196, 196, 197, 197, 197, 197, 197, 197, 197, 198, 198, 198, 198, 198, 198,
    198, 199, 199, 199, 199, 199, 199, 199, 200, 200, 200, 200, 200, 200, 200, 200, 201, 201, 201, 201, 201, 201, 201, 202, 202,
    202, 202, 202, 202, 202, 202, 203, 203, 203, 203, 203, 203, 203, 204, 204, 204, 204, 204, 204, 204, 204, 205, 205, 205, 205,
    205, 205, 205, 205, 206, 206, 206, 206, 206, 206, 206, 206, 207, 207, 207, 207, 207, 207, 207, 207, 208, 208, 208, 208, 208,
    208, 208, 208, 208, 209, 209, 209, 209, 209, 209, 209, 209, 210, 210, 210, 210, 210, 210, 210, 210, 210, 211, 211, 211, 211,
    211, 211, 211, 211, 211, 212, 212, 212, 212, 212, 212, 212, 212, 212, 213, 213, 213, 213, 213, 213, 213, 213, 213, 214, 214,
    214, 214, 214, 214, 214, 214, 214, 215, 215, 215, 215, 215, 215, 215, 215, 215, 216, 216, 216, 216, 216, 216, 216, 216, 216,
    216, 217, 217, 217, 217, 217, 217, 217, 217, 217, 217, 218, 218, 218, 218, 218, 218, 218, 218, 218, 218, 219, 219, 219, 219,
    219, 219, 219, 219, 219, 219, 220, 220, 220, 220, 220, 220, 220, 220, 220, 220, 220, 221, 221, 221, 221, 221, 221, 221, 221,
    221, 221, 221, 222, 222, 222, 222, 222, 222, 222, 222, 222, 222, 222, 223, 223, 223, 223, 223, 223, 223, 223, 223, 223, 223,
    224, 224, 224, 224, 224, 224, 224, 224, 224, 224, 224, 224, 225, 225, 225, 225, 225, 225, 225, 225, 225, 225, 225, 225, 226,
    226, 226, 226, 226, 226, 226, 226, 226, 226, 226, 226, 227, 227, 227, 227, 227, 227, 227, 227, 227, 227, 227, 227, 227, 228,
    228, 228, 228, 228, 228, 228, 228, 228, 228, 228, 228, 228, 229, 229, 229, 229, 229, 229, 229, 229, 229, 229, 229, 229, 229,
    229, 230, 230, 230, 230, 230, 230, 230, 230, 230, 230, 230, 230, 230, 230, 231, 231, 231, 231, 231, 231, 231, 231, 231, 231,
    231, 231, 231, 231, 231, 232, 232, 232, 232, 232, 232, 232, 232, 232, 232, 232, 232, 232, 232, 232, 233, 233, 233, 233, 233,
    233, 233, 233, 233, 233, 233, 233, 233, 233, 233, 233, 234, 234, 234, 234, 234, 234, 234, 234, 234, 234, 234, 234, 234, 234,
    234, 234, 235, 235, 235, 235, 235, 235, 235, 235, 235, 235, 235, 235, 235, 235, 235, 235, 235, 235, 236, 236, 236, 236, 236,
    236, 236, 236, 236, 236, 236, 236, 236, 236, 236, 236, 236, 236, 237, 237, 237, 237, 237, 237, 237, 237, 237, 237, 237, 237,
    237, 237, 237, 237, 237, 237, 237, 238, 238, 238, 238, 238, 238, 238, 238, 238, 238, 238, 238, 238, 238, 238, 238, 238, 238,
    238, 238, 239, 239, 239, 239, 239, 239, 239, 239, 239, 239, 239, 239, 239, 239, 239, 239, 239, 239, 239, 239, 239, 240, 240,
    240, 240, 240, 240, 240, 240, 240, 240, 240, 240, 240, 240, 240, 240, 240, 240, 240, 240, 240, 240, 240, 241, 241, 241, 241,
    241, 241, 241, 241, 241, 241, 241, 241, 241, 241, 241, 241, 241, 241, 241, 241, 241, 241, 241, 241, 242, 242, 242, 242, 242,
    242, 242, 242, 242, 242, 242, 242, 242, 242, 242, 242, 242, 242, 242, 242, 242, 242, 242, 242, 242, 242, 243, 243, 243, 243,
    243, 243, 243, 243, 243, 243, 243, 243, 243, 243, 243, 243, 243, 243, 243, 243, 243, 243, 243, 243, 243, 243, 243, 243, 244,
    244, 244, 244, 244, 244, 244, 244, 244, 244, 244, 244, 244, 244, 244, 244, 244, 244, 244, 244, 244, 244, 244, 244, 244, 244,
    244, 244, 244, 244, 245, 245, 245, 245, 245, 245, 245, 245, 245, 245, 245, 245, 245, 245, 245, 245, 245, 245, 245, 245, 245,
    245, 245, 245, 245, 245, 245, 245, 245, 245, 245, 245, 245, 246, 246, 246, 246, 246, 246, 246, 246, 246, 246, 246, 246, 246,
    246, 246, 246, 246, 246, 246, 246, 246, 246, 246, 246, 246, 246, 246, 246, 246, 246, 246, 246, 246, 246, 246, 246, 246, 247,
    247, 247, 247, 247, 247, 247, 247, 247, 247, 247, 247, 247, 247, 247, 247, 247, 247, 247, 247, 247, 247, 247, 247, 247, 247,
    247, 247, 247, 247, 247, 247, 247, 247, 247, 247, 247, 247, 247, 247, 247, 248, 248, 248, 248, 248, 248, 248, 248, 248, 248,
    248, 248, 248, 248, 248, 248, 248, 248, 248, 248, 248, 248, 248, 248, 248, 248, 248, 248, 248, 248, 248, 248, 248, 248, 248,
    248, 248, 248, 248, 248, 248, 248, 248, 248, 248, 248, 248, 249, 249, 249, 249, 249, 249, 249, 249, 249, 249, 249, 249, 249,
    249, 249, 249, 249, 249, 249, 249, 249, 249, 249, 249, 249, 249, 249, 249, 249, 249, 249, 249, 249, 249, 249, 249, 249, 249,
    249, 249, 249, 249, 249, 249, 249, 249, 249, 249, 249, 249, 249, 249, 249, 249, 250, 250, 250, 250, 250, 250, 250, 250, 250,
    250, 250, 250, 250, 250, 250, 250, 250, 250, 250, 250, 250, 250, 250, 250, 250, 250, 250, 250, 250, 250, 250, 250, 250, 250,
    250, 250, 250, 250, 250, 250, 250, 250, 250, 250, 250, 250, 250, 250, 250, 250, 250, 250, 250, 250, 250, 250, 250, 250, 250,
    250
  >>

\* Index of the value v in a table on the grid of tenths; 0 (no entry) when
\* v is not on the grid.
GridIndex(v) == IF (10 * v[1]) % v[2] = 0 THEN (10 * v[1]) \div v[2] + 1 ELSE 0

\* Math.round(Math.pow(value / 255, 1 / e) * 255)
PowRounded(value, e) ==
  CASE e = <<73, 100>> -> PowTable73[GridIndex(value)]
    [] e = <<41, 50>>  -> PowTable82[GridIndex(value)]
    [] e = <<1, 10>>   -> PowTable10[GridIndex(value)]
    [] e = <<1009, 10000>> -> PowTable1009[GridIndex(value)]
    [] e = <<2, 1>>    -> PowTable200[GridIndex(value)]

\* Math.round((sigmoid((value / 127.5 - 1) * dampenedStrength) * 2 - 1 + 1) * 127.5)
SigmoidRounded(value, dampenedStrength) ==
  CASE dampenedStrength = <<13, 10>> -> SigmoidTable130[GridIndex(value)]
    [] dampenedStrength = <<-2, 1>>  -> SigmoidTableMinus200[GridIndex(value)]
    [] dampenedStrength = <<-1997, 1000>> -> SigmoidTableMinus1997[GridIndex(value)]
    [] dampenedStrength = <<1, 1>>   -> SigmoidTable100[GridIndex(value)]
    [] dampenedStrength = <<4, 1>>   -> SigmoidTable400[GridIndex(value)]

-----------------------------------------------------------------------------
(* adjustments.ts: the tone curves *)

\* A faulty variant: at strength 0 the exponent is 1 / (0.9 * 0), which is
\* Infinity; Math.pow(1, Infinity) is NaN (written -1 here) and
\* Math.pow(n, Infinity) is 0 for n < 1.
adjustChannelCurveUnfloored(value, strength) ==
  IF strength = Zero THEN (IF value = Num(255) THEN -1 ELSE 0)
  ELSE IF strength = One
    THEN Max(0, Min(255, MathRound(Scaled(RDiv(value, Num(255)), 255))))
  ELSE IF RLt(strength, One)
    THEN Max(0, Min(255, PowRounded(value, RAdd(RMul(<<9, 10>>, strength),
                                                <<1, 10>>))))
  ELSE Max(0, Min(255, PowRounded(value, strength)))

adjustChannelCurve(value, strength) ==
  LET normalized == RDiv(value, Num(255))
      rounded ==
        IF strength = One
          THEN MathRound(Scaled(normalized, 255))
        ELSE IF RLt(strength, One)
          THEN PowRounded(value, RAdd(RMul(<<9, 10>>, strength), <<1, 10>>))
        ELSE PowRounded(value, strength)
  IN Max(0, Min(255, rounded))

applySCurve(value, strength) ==
  LET dampenedStrength == RAdd(RMul(RSub(strength, One), Num(3)), One)
  IN Max(0, Min(255, SigmoidRounded(value, dampenedStrength)))

-----------------------------------------------------------------------------
(* imageProcessing.ts: RGB <-> HSL *)

\* A faulty variant: no 6 is added when g < b, so the hue may be negative.
HslOfRangeUnwrapped(r, g, b, max, min) ==
  LET l == RDiv(RAdd(max, min), Num(2))
      d == RSub(max, min)
  IN IF max # min
       THEN [h |-> RMul(IF max = r
                          THEN RAdd(RDiv(RSub(g, b), d),
                                    Zero)
                        ELSE IF max = g THEN RAdd(RDiv(RSub(b, r), d), Num(2))
                        ELSE RAdd(RDiv(RSub(r, g), d), Num(4)),
                        Num(60)),
             s |-> IF RGt(l, Half)
                     THEN RDiv(d, RSub(RSub(Num(2), max), min))
                     ELSE RDiv(d, RAdd(max, min)),
             l |-> l]
       ELSE [h |-> Zero, s |-> Zero, l |-> l]

\* The body of rgbToHsl on the normalised channels, with max and min.
HslOfRange(r, g, b, max, min) ==
  LET l == RDiv(RAdd(max, min), Num(2))
      d == RSub(max, min)
  IN IF max # min
       THEN [h |-> RMul(IF max = r
                          THEN RAdd(RDiv(RSub(g, b), d),
                                    IF RLt(g, b) THEN Num(6) ELSE Zero)
                        ELSE IF max = g THEN RAdd(RDiv(RSub(b, r), d), Num(2))
                        ELSE RAdd(RDiv(RSub(r, g), d), Num(4)),
                        Num(60)),
             s |-> IF RGt(l, Half)
                     THEN RDiv(d, RSub(RSub(Num(2), max), min))
                     ELSE RDiv(d, RAdd(max, min)),
             l |-> l]
       ELSE [h |-> Zero, s |-> Zero, l |-> l]

HslOfNormalized(r, g, b) ==
  HslOfRange(r, g, b, RMax(RMax(r, g), b), RMin(RMin(r, g), b))

rgbToHsl(r, g, b) ==
  HslOfNormalized(RDiv(r, Num(255)), RDiv(g, Num(255)), RDiv(b, Num(255)))

\* hue2rgb after its two wrapping statements.
hue2rgbWrapped(p, q, t) ==
  IF RLt(t, <<1, 6>>) THEN RAdd(p, RMul(RMul(RSub(q, p), Num(6)), t))
  ELSE IF RLt(t, Half) THEN q
  ELSE IF RLt(t, <<2, 3>>)
    THEN RAdd(p, RMul(RMul(RSub(q, p), RSub(<<2, 3>>, t)), Num(6)))
  ELSE p

\* if (t < 0) t += 1;  and  if (t > 1) t -= 1;
WrapBelow(t) == IF RLt(t, Zero) THEN RAdd(t, One) ELSE t
WrapAbove(t) == IF RGt(t, One) THEN RSub(t, One) ELSE t

\* A faulty variant: t is not wrapped into [0, 1].
hue2rgbUnwrapped(p, q, t) == hue2rgbWrapped(p, q, t)

hue2rgb(p, q, t) == hue2rgbWrapped(p, q, WrapAbove(WrapBelow(t)))

\* The return statement of hslToRgb.
RoundRgb(r, g, b) ==
  [r |-> MathRound(Scaled(r, 255)),
   g |-> MathRound(Scaled(g, 255)),
   b |-> MathRound(Scaled(b, 255))]

\* The else branch of hslToRgb once p, q and h / 360 are known.
HslChannels(p, q, t) ==
  RoundRgb(hue2rgb(p, q, RAdd(t, <<1, 3>>)),
           hue2rgb(p, q, t),
           hue2rgb(p, q, RSub(t, <<1, 3>>)))

HslWithQ(h, l, q) == HslChannels(RSub(RMul(Num(2), l), q), q, RDiv(h, Num(360)))

hslToRgb(h, s, l) ==
  IF s = Zero THEN RoundRgb(l, l, l)
  ELSE HslWithQ(h, l, IF RLt(l, Half) THEN RMul(l, RAdd(One, s))
                      ELSE RSub(RAdd(l, s), RMul(l, s)))

-----------------------------------------------------------------------------
(* adjustments.ts: applyNoiseReduction *)

\* A faulty variant: the neighbours are read from the buffer being written.
NoiseBlendInPlace(original, data, width, strength, idx, c) ==
  ToUint8Clamp(Num(MathRound(
    RAdd(RMul(RSub(One, strength), Num(data[idx + c])),
         RMul(strength, Rat(data[idx - width * 4 + c] + data[idx + width * 4 + c]
                            + data[idx - 4 + c] + data[idx + 4 + c], 4))))))

\* The value written to data[idx + c]: neighbours from the snapshot
\* `original`, the pixel itself from `data`.
NoiseBlend(original, data, width, strength, idx, c) ==
  LET sum == original[idx - width * 4 + c] + original[idx + width * 4 + c]
             + original[idx - 4 + c] + original[idx + 4 + c]
      avg == Rat(sum, 4)
  IN ToUint8Clamp(Num(MathRound(
       RAdd(RMul(RSub(One, strength), Num(data[idx + c])), RMul(strength, avg)))))

\* A faulty variant: the channel loop also runs over alpha (c < 4).
RECURSIVE NoisePassWithAlpha(_, _, _, _, _, _, _, _)
NoisePassWithAlpha(original, data, width, height, strength, y, x, c) ==
  IF y >= height - 1 THEN data
  ELSE IF x >= width - 1
    THEN NoisePassWithAlpha(original, data, width, height, strength, y + 1, 1, 0)
  ELSE IF c >= 4
    THEN NoisePassWithAlpha(original, data, width, height, strength, y, x + 1, 0)
  ELSE NoisePassWithAlpha(original,
         [data EXCEPT ![(y * width + x) * 4 + c] =
            ToUint8Clamp(Num(MathRound(
              RAdd(RMul(RSub(One, strength), Num(data[(y * width + x) * 4 + c])),
                   RMul(strength,
                        Rat(original[(y - 1) * width * 4 + x * 4 + c]
                            + original[(y + 1) * width * 4 + x * 4 + c]
                            + original[(y * width + x - 1) * 4 + c]
                            + original[(y * width + x + 1) * 4 + c], 4))))))],
         width, height, strength, y, x, c + 1)

\* The three nested loops, from position (y, x, c) on.
RECURSIVE NoisePass(_, _, _, _, _, _, _, _)
NoisePass(original, data, width, height, strength, y, x, c) ==
  IF y >= height - 1 THEN data
  ELSE IF x >= width - 1
    THEN NoisePass(original, data, width, height, strength, y + 1, 1, 0)
  ELSE IF c >= 3
    THEN NoisePass(original, data, width, height, strength, y, x + 1, 0)
  ELSE LET idx == (y * width + x) * 4
           written == [data EXCEPT ![idx + c] =
                         NoiseBlend(original, data, width, strength, idx, c)]
       IN NoisePass(original, written, width, height, strength, y, x, c + 1)

\* The contents of `data` after applyNoiseReduction(data, width, height, strength).
applyNoiseReduction(data, width, height, strength) ==
  NoisePass(data, data, width, height, strength, 1, 1, 0)

-----------------------------------------------------------------------------
(* negativeConverter.ts: the working canvas *)


\* ctx.putImageData(imageData, 0, 0) on a context created with alpha: false:
\* the colour bytes are stored, the alpha of the canvas stays opaque.
putImageData(data) == [i \in DOMAIN data |-> IF i % 4 = 3 THEN 255 ELSE data[i]]

\* ctx.getImageData(x, y, 1, 1).data; outside the canvas, transparent black.
getPixel(canvas, x, y) ==
  IF 0 <= x /\ x < canvas.width /\ 0 <= y /\ y < canvas.height
    THEN LET i == (y * canvas.width + x) * 4
         IN <<canvas.bitmap[i], canvas.bitmap[i + 1],
              canvas.bitmap[i + 2], canvas.bitmap[i + 3]>>
    ELSE <<0, 0, 0, 0>>

\* new Uint8ClampedArray(...): a fresh buffer with the given contents.
NewBuffer(h, contents) == [heap |-> Append(h, contents), id |-> Len(h) + 1]

-----------------------------------------------------------------------------
(* negativeConverter.ts: the film base colour *)

DefaultBase == [r |-> 220, g |-> 150, b |-> 130]
sampleSize == 50

\* The four edges; x and y name the eight arrow functions of the literal,
\* each its own function object.
edges ==
  << [x |-> "x => x",         y |-> "() => 0"],
     [x |-> "x => x (2)",     y |-> "() => height - 1"],
     [x |-> "() => 0 (2)",    y |-> "y => y"],
     [x |-> "() => width - 1", y |-> "y => y (2)"] >>

Call(f, i, width, height) ==
  CASE f = "x => x"           -> i
    [] f = "() => 0"          -> 0
    [] f = "x => x (2)"       -> i
    [] f = "() => 0 (2)"      -> 0
    [] f = "() => height - 1" -> height - 1
    [] f = "y => y"           -> i
    [] f = "() => width - 1"  -> width - 1
    [] f = "y => y (2)"       -> i

\* The inner loop over one edge, from index i on.
RECURSIVE SampleEdge(_, _, _, _)
SampleEdge(canvas, edge, i, acc) ==
  IF i < (IF edge.x = edge.y THEN canvas.height ELSE canvas.width)
     /\ acc.sampleCount < sampleSize
    THEN LET x == Call(edge.x, i, canvas.width, canvas.height)
             y == Call(edge.y, i, canvas.width, canvas.height)
             pixelData == getPixel(canvas, x, y)
         IN SampleEdge(canvas, edge, i + 10,
              [totalR |-> acc.totalR + pixelData[1],
               totalG |-> acc.totalG + pixelData[2],
               totalB |-> acc.totalB + pixelData[3],
               sampleCount |-> acc.sampleCount + 1,
               coords |-> Append(acc.coords, <<x, y>>)])
    ELSE acc

RECURSIVE SampleEdges(_, _, _)
SampleEdges(canvas, k, acc) ==
  IF k > Len(edges) THEN acc
  ELSE SampleEdges(canvas, k + 1, SampleEdge(canvas, edges[k], 0, acc))

\* A faulty variant: the totals are divided whatever the count; 0 / 0 is NaN,
\* which later arithmetic and the byte store turn into 0.
BaseFromSamplesUnguarded(acc) ==
  [color |-> IF acc.sampleCount > 0
               THEN [r |-> MathRound(Rat(acc.totalR, acc.sampleCount)),
                     g |-> MathRound(Rat(acc.totalG, acc.sampleCount)),
                     b |-> MathRound(Rat(acc.totalB, acc.sampleCount))]
               ELSE [r |-> 0, g |-> 0, b |-> 0],
   coords |-> acc.coords, divisions |-> 3]

\* Lines 80-90: the average of the samples, or the default.
BaseFromSamples(acc) ==
  IF acc.sampleCount > 0
    THEN [color |-> [r |-> MathRound(Rat(acc.totalR, acc.sampleCount)),
                     g |-> MathRound(Rat(acc.totalG, acc.sampleCount)),
                     b |-> MathRound(Rat(acc.totalB, acc.sampleCount))],
          coords |-> acc.coords, divisions |-> 3]
    ELSE [color |-> DefaultBase, coords |-> acc.coords, divisions |-> 0]

\* A faulty variant: useBorderSampling is looked at before filmBaseColor.
FilmBaseSamplingFirst(opts, canvas) ==
  IF opts.useBorderSampling
    THEN BaseFromSamples(SampleEdges(canvas, 1,
           [totalR |-> 0, totalG |-> 0, totalB |-> 0,
            sampleCount |-> 0, coords |-> <<>>]))
  ELSE IF opts.filmBaseColor # <<>>
    THEN [color |-> opts.filmBaseColor[1], coords |-> <<>>, divisions |-> 0]
  ELSE [color |-> DefaultBase, coords |-> <<>>, divisions |-> 0]

\* Lines 48-91: the colour, the coordinates sampled and the divisions made.
FilmBase(opts, canvas) ==
  IF opts.filmBaseColor # <<>>
    THEN [color |-> opts.filmBaseColor[1], coords |-> <<>>, divisions |-> 0]
  ELSE IF opts.useBorderSampling
    THEN BaseFromSamples(SampleEdges(canvas, 1,
           [totalR |-> 0, totalG |-> 0, totalB |-> 0,
            sampleCount |-> 0, coords |-> <<>>]))
  ELSE [color |-> DefaultBase, coords |-> <<>>, divisions |-> 0]

-----------------------------------------------------------------------------
(* negativeConverter.ts: the per-pixel stages *)

DefaultOptions ==
  [filmBaseColor |-> <<>>,
   useBorderSampling |-> FALSE,
   baseSubtractionOpacity |-> <<4, 5>>,
   channelAdjustments |-> [r |-> One, g |-> <<4, 5>>, b |-> <<7, 10>>],
   contrastBoost |-> <<11, 10>>,
   cyanAdjustment |-> [hue |-> Num(10), saturation |-> <<4, 5>>,
                       lightness |-> <<1, 10>>]]

\* STEP 1
Invert(px) == [r |-> Num(255 - px[1]), g |-> Num(255 - px[2]), b |-> Num(255 - px[3])]

\* STEP 2
\* A faulty variant: the opacity is ignored.
subtractWhole(color, base, baseSubtractionOpacity) ==
  RMax(Zero, RMin(Num(255), RSub(color, Num(255 - base))))

\* A faulty variant: the base itself, not its inverse, is the amount.
subtractBaseItself(color, base, baseSubtractionOpacity) ==
  RMax(Zero, RMin(Num(255), RSub(color, RMul(Num(base), baseSubtractionOpacity))))

subtractAmount(color, base, baseSubtractionOpacity) ==
  LET amount == RMul(Num(255 - base), baseSubtractionOpacity)
  IN RMax(Zero, RMin(Num(255), RSub(color, amount)))

SubtractBase(v, base, opts) ==
  [r |-> subtractAmount(v.r, base.r, opts.baseSubtractionOpacity),
   g |-> subtractAmount(v.g, base.g, opts.baseSubtractionOpacity),
   b |-> subtractAmount(v.b, base.b, opts.baseSubtractionOpacity)]

\* STEP 3
\* A faulty variant: the curve is applied whatever the strength.
ChannelCurvesUnguarded(v, opts) ==
  [r |-> Num(adjustChannelCurve(v.r, opts.channelAdjustments.r)),
   g |-> Num(adjustChannelCurve(v.g, opts.channelAdjustments.g)),
   b |-> Num(adjustChannelCurve(v.b, opts.channelAdjustments.b))]

ChannelCurves(v, opts) ==
  LET ca == opts.channelAdjustments
  IN [r |-> IF ca.r # One THEN Num(adjustChannelCurve(v.r, ca.r)) ELSE v.r,
      g |-> IF ca.g # One THEN Num(adjustChannelCurve(v.g, ca.g)) ELSE v.g,
      b |-> IF ca.b # One THEN Num(adjustChannelCurve(v.b, ca.b)) ELSE v.b]

\* STEP 4
Contrast(v, opts) ==
  IF opts.contrastBoost # One
    THEN [r |-> Num(applySCurve(v.r, opts.contrastBoost)),
          g |-> Num(applySCurve(v.g, opts.contrastBoost)),
          b |-> Num(applySCurve(v.b, opts.contrastBoost))]
    ELSE v

\* STEP 5, the innermost block with cyanStrength known.
RgbNumbers(rgb) == [r |-> Num(rgb.r), g |-> Num(rgb.g), b |-> Num(rgb.b)]
CyanAdjusted(hsl, cyanAdjustment, cyanStrength) ==
  RgbNumbers(hslToRgb(
    RAdd(hsl.h, RMul(cyanAdjustment.hue, cyanStrength)),
    RMul(hsl.s, RSub(One,
      RMul(RSub(One, cyanAdjustment.saturation), cyanStrength))),
    RAdd(hsl.l, RMul(cyanAdjustment.lightness, cyanStrength))))

\* A faulty variant: the strength is not capped at 1.
cyanStrengthUncapped(v) == RDiv(RSub(RMin(v.g, v.b), v.r), Num(100))

\* Line 151: Math.min(1, (Math.min(g, b) - r) / 100).
cyanStrength(v) == RMin(One, RDiv(RSub(RMin(v.g, v.b), v.r), Num(100)))

CyanShift(v, hsl, cyanAdjustment) ==
  CyanAdjusted(hsl, cyanAdjustment, cyanStrength(v))

\* A faulty variant: the gate on |g - b| admits its boundary.
OuterGateInclusive(v) ==
  RGt(v.g, v.r) /\ RGt(v.b, v.r) /\ ~RGt(RAbs(RSub(v.g, v.b)), Num(50))

\* The gates of STEP 5.
OuterGate(v) ==
  RGt(v.g, v.r) /\ RGt(v.b, v.r) /\ RLt(RAbs(RSub(v.g, v.b)), Num(50))
isCyan(v) ==
  /\ RGt(RDiv(RAdd(v.g, v.b), Num(2)), RMul(v.r, <<13, 10>>))
  /\ RGt(v.g, Num(100))
  /\ RGt(v.b, Num(100))
HueGate(h) == RGt(h, Num(150)) /\ RLt(h, Num(210))

CyanOnHue(v, hsl, opts) ==
  IF HueGate(hsl.h) THEN CyanShift(v, hsl, opts.cyanAdjustment) ELSE v

\* STEP 5
CyanCorrection(v, opts) ==
  IF OuterGate(v)
    THEN IF isCyan(v) THEN CyanOnHue(v, rgbToHsl(v.r, v.g, v.b), opts) ELSE v
    ELSE v

\* r, g, b of one pixel after steps 1-4 and after steps 1-5.
AfterContrast(px, base, opts) ==
  Contrast(ChannelCurves(SubtractBase(Invert(px), base, opts), opts), opts)
AfterCyan(px, base, opts) == CyanCorrection(AfterContrast(px, base, opts), opts)

PixelAt(pixels, p) ==
  <<pixels[4 * p], pixels[4 * p + 1], pixels[4 * p + 2], pixels[4 * p + 3]>>

\* "Store final values": the four bytes written for a pixel.
Store(v, alpha) ==
  <<ToUint8Clamp(v.r), ToUint8Clamp(v.g), ToUint8Clamp(v.b), alpha>>
StoredPixel(pixels, p, base, opts) ==
  Store(AfterCyan(PixelAt(pixels, p), base, opts), pixels[4 * p + 3])

\* outputData after the loop over pixels (lines 101-172): iteration i writes
\* bytes i..i+3 of outputData from bytes i..i+3 of pixels.
StoredBytes(pixels, stored) ==
  [i \in DOMAIN pixels |-> stored[i \div 4][(i % 4) + 1]]
PixelLoop(pixels, base, opts) ==
  StoredBytes(pixels,
    [p \in 0..(Cardinality(DOMAIN pixels) \div 4 - 1) |->
       StoredPixel(pixels, p, base, opts)])

-----------------------------------------------------------------------------
(* negativeConverter.ts: convertNegativeToPositive *)

NoiseMinSize == 200

\* A faulty variant: the loop writes into the caller's buffer.
OutputInPlace(h, length) == [heap |-> h, id |-> 1]

\* new Uint8ClampedArray(pixels.length): the zero-filled output buffer.
OutputBuffer(h, length) == NewBuffer(h, [i \in 0..(length - 1) |-> 0])

\* A faulty variant: the threshold itself counts as large.
NoiseCallsInclusive(width, height) ==
  IF width >= NoiseMinSize /\ height >= NoiseMinSize THEN <<Half>> ELSE <<>>

\* Lines 174-177: the strengths of the calls of applyNoiseReduction made
\* after the pixel loop, in order.
NoiseCalls(width, height) ==
  IF width > NoiseMinSize /\ height > NoiseMinSize THEN <<Half>> ELSE <<>>

\* Lines 174-177: noise reduction of outputData, for large images only.
Smoothed(outputData, width, height) ==
  IF NoiseCalls(width, height) = <<>> THEN outputData
  ELSE applyNoiseReduction(outputData, width, height,
                           NoiseCalls(width, height)[1])

\* Lines 101-180, with the buffers `data` and `out` allocated.
convertInto(opts, canvas, fb, data, out) ==
  [heap |-> [out.heap EXCEPT ![out.id] =
               Smoothed(PixelLoop(out.heap[data.id], fb.color, opts),
                        canvas.width, canvas.height)],
   outcome |-> "returned",
   result |-> <<[width |-> canvas.width, height |-> canvas.height,
                 data |-> out.id]>>,
   base |-> <<fb.color>>, coords |-> fb.coords, divisions |-> fb.divisions,
   noise |-> NoiseCalls(canvas.width, canvas.height)]

\* Lines 94-98: data = ctx.getImageData(0, 0, width, height) is a copy of the
\* bitmap; outputData is allocated after it.
convertData(opts, canvas, fb, data) ==
  convertInto(opts, canvas, fb, data,
              OutputBuffer(data.heap, Cardinality(DOMAIN canvas.bitmap)))

\* From line 94 on, with the film base known.  getImageData with a zero
\* width or height throws IndexSizeError.
convertFrom(h, opts, canvas, fb) ==
  IF canvas.width = 0 \/ canvas.height = 0
    THEN [heap |-> h, outcome |-> "threw", result |-> <<>>,
          base |-> <<fb.color>>, coords |-> fb.coords,
          divisions |-> fb.divisions, noise |-> <<>>]
    ELSE convertData(opts, canvas, fb, NewBuffer(h, canvas.bitmap))

convertOnCanvas(h, opts, canvas) ==
  convertFrom(h, opts, canvas, FilmBase(opts, canvas))

\* A faulty variant: the context is used without being tested.
convertWithoutContextTest(h, imageData, opts, gotContext) ==
  convertOnCanvas(h, opts,
    [width |-> imageData.width, height |-> imageData.height,
     bitmap |-> putImageData(h[imageData.data])])

\* The call convertNegativeToPositive(imageData, opts) on heap h; gotContext
\* tells whether canvas.getContext returned a context.  The code has no test
\* of the buffer's length: with a context, ctx.putImageData (line 45) is the
\* first use of the image, and the browser throws there when the argument is
\* not an ImageData whose buffer holds width * height * 4 bytes (a detached
\* buffer has length 0; an object that is no ImageData is a TypeError).
\* tells whether canvas.getContext returned a context.
convertNegativeToPositive(h, imageData, opts, gotContext) ==
  IF ~gotContext
    THEN [heap |-> h, outcome |-> "returned", result |-> <<imageData>>,
          base |-> <<>>, coords |-> <<>>, divisions |-> 0, noise |-> <<>>]
  ELSE IF Cardinality(DOMAIN h[imageData.data])
            # imageData.width * imageData.height * 4
    THEN [heap |-> h, outcome |-> "rejected", result |-> <<>>,
          base |-> <<>>, coords |-> <<>>, divisions |-> 0, noise |-> <<>>]
    ELSE convertOnCanvas(h, opts,
           [width |-> imageData.width, height |-> imageData.height,
            bitmap |-> putImageData(h[imageData.data])])

-----------------------------------------------------------------------------
(* Inputs *)

MaxWidth == 4
MaxHeight == 3

\* Input pixels <<r, g, b, a>>.  The inverses of the first seven sit on or
\* next to the boundaries of the step-5 gates.
Palette ==
  << <<205, 55, 55, 255>>,    \* inverse (50, 200, 200): hue 180
     <<205, 55, 105, 255>>,   \* inverse (50, 200, 150): |g - b| = 50
     <<155, 125, 125, 255>>,  \* inverse (100, 130, 130): (g + b) / 2 = 1.3 r
     <<205, 155, 115, 255>>,  \* inverse (50, 100, 140): g = 100
     <<145, 65, 105, 255>>,   \* inverse (110, 190, 150): hue 150
     <<145, 105, 65, 255>>,   \* inverse (110, 150, 190): hue 210
     <<135, 134, 100, 255>>,  \* inverse (120, 121, 155)
     <<128, 128, 128, 255>>,
     <<220, 150, 130, 255>>,
     <<0, 0, 0, 255>>,
     <<255, 255, 255, 255>>,
     <<205, 55, 55, 128>>,
     <<10, 20, 30, 0>> >>

\* Pixel p of pattern <<k, step>> is Palette entry (k + step * p) mod Len.
Uniform == {<<k, 0>> : k \in 0..(Len(Palette) - 1)}
Mixed == {<<0, 1>>, <<4, 1>>, <<9, 1>>, <<0, 5>>}

MkData(w, h, pat) ==
  [i \in 0..(w * h * 4 - 1) |->
     Palette[((pat[1] + pat[2] * (i \div 4)) % Len(Palette)) + 1][(i % 4) + 1]]

SmallDims == (0..MaxWidth) \X (0..MaxHeight)
WideDims == {<<11, 1>>, <<20, 10>>, <<121, 1>>}
LargeDims == {<<100, 50>>}

\* The images: every small size with mixed contents, single pixels of every
\* palette colour, wide strips, and one uniform 100x50 image.
Inputs ==
  {<<d, pat>> \in (SmallDims \cup WideDims) \X (Mixed \cup {<<8, 0>>}) : TRUE}
  \cup {<<d, pat>> \in {<<1, 1>>} \X Uniform : TRUE}
  \cup {<<d, pat>> \in LargeDims \X {<<8, 0>>} : TRUE}

ManualBase == [r |-> 200, g |-> 120, b |-> 100]

NeutralCurves == [r |-> One, g |-> One, b |-> One]

StageOptions ==
  {[DefaultOptions EXCEPT !.baseSubtractionOpacity = o,
                          !.channelAdjustments = NeutralCurves,
                          !.contrastBoost = One] : o \in {Zero, Half, One}}
  \cup {DefaultOptions}

OptionSet ==
  {[s EXCEPT !.filmBaseColor = f, !.useBorderSampling = u] :
     s \in StageOptions, f \in {<<>>, <<ManualBase>>}, u \in BOOLEAN}

\* The 100x50 image is converted with full base subtraction and neutral
\* curves only.
OptionsFor(img) ==
  IF <<img.width, img.height>> \in LargeDims
    THEN {o \in OptionSet : o.baseSubtractionOpacity = One}
    ELSE OptionSet

Strengths == {Zero, <<1, 4>>, Half, One}

\* Sizes on both sides of the noise-reduction threshold.  The pixels of
\* these images are not modelled: image.data names no buffer of the heap.
ThresholdDims ==
  {<<199, 300>>, <<200, 200>>, <<200, 300>>, <<201, 200>>, <<201, 201>>,
   <<300, 201>>, <<300, 300>>}

-----------------------------------------------------------------------------
(* The state machine *)

Init ==
  /\ \/ \E in \in Inputs :
          /\ heap = <<MkData(in[1][1], in[1][2], in[2])>>
          /\ image = [width |-> in[1][1], height |-> in[1][2], data |-> 1]
          /\ entry = MkData(in[1][1], in[1][2], in[2])
     \/ \E d \in ThresholdDims :
          /\ heap = <<>>
          /\ image = [width |-> d[1], height |-> d[2], data |-> 0]
          /\ entry = <<>>
  /\ pc = "idle"
  /\ options = DefaultOptions
  /\ ctxOk = FALSE
  /\ result = <<>>
  /\ filmBaseColor = <<>>
  /\ sampled = <<>>
  /\ divisions = 0
  /\ nrStrength = <<>>
  /\ noiseCalls = <<>>
  /\ call = <<>>
  /\ ret = <<>>
  /\ Unmounted

\* The effect of a completed call on the state.
Completes(done) ==
  /\ heap' = done.heap
  /\ pc' = done.outcome
  /\ result' = done.result
  /\ filmBaseColor' = done.base
  /\ sampled' = done.coords
  /\ divisions' = done.divisions
  /\ noiseCalls' = done.noise

\* A call convertNegativeToPositive(image, opts).
Convert(opts, gotContext) ==
  /\ pc = "idle"
  /\ image.data \in DOMAIN heap
  /\ Completes(convertNegativeToPositive(heap, image, opts, gotContext))
  /\ options' = opts
  /\ ctxOk' = gotContext
  /\ UNCHANGED <<image, entry, nrStrength, call, ret, uiVars, dlVars>>

\* A call applyNoiseReduction(data, width, height, strength) on the image's
\* own buffer.
NoiseReduce(strength) ==
  /\ pc = "idle"
  /\ <<image.width, image.height>> \in SmallDims
  /\ heap' = [heap EXCEPT ![image.data] =
                applyNoiseReduction(@, image.width, image.height, strength)]
  /\ pc' = "filtered"
  /\ nrStrength' = strength
  /\ UNCHANGED <<image, entry, options, ctxOk, result, filmBaseColor,
                 sampled, divisions, noiseCalls, call, ret, uiVars, dlVars>>

\* A call convertNegativeToPositive(image, opts) on an image whose pixels
\* are not modelled, with a drawing context: of its effects only the calls
\* of applyNoiseReduction (lines 174-177) are recorded.
ConvertSized ==
  /\ pc = "idle"
  /\ image.data \notin DOMAIN heap
  /\ noiseCalls' = NoiseCalls(image.width, image.height)
  /\ pc' = "sized"
  /\ ctxOk' = TRUE
  /\ UNCHANGED <<heap, image, entry, options, result, filmBaseColor,
                 sampled, divisions, nrStrength, call, ret, uiVars, dlVars>>

Next ==
  \/ \E opts \in OptionsFor(image), gotContext \in BOOLEAN : Convert(opts, gotContext)
  \/ \E strength \in Strengths : NoiseReduce(strength)
  \/ ConvertSized

Spec == Init /\ [][Next]_vars

-----------------------------------------------------------------------------
(* The state machine of calls with a buffer of the wrong length *)

\* <<width, height, length of the buffer>>; length 0 is a detached buffer.
InvalidImages ==
  {<<1, 1, 0>>, <<1, 1, 3>>, <<1, 1, 5>>, <<2, 2, 0>>, <<2, 2, 15>>,
   <<2, 2, 20>>, <<0, 1, 4>>, <<11, 1, 0>>}

InitInvalid ==
  /\ \E in \in InvalidImages, k \in {0, 8} :
       /\ heap = <<[i \in 0..(in[3] - 1) |-> Palette[k + 1][(i % 4) + 1]]>>
       /\ image = [width |-> in[1], height |-> in[2], data |-> 1]
       /\ entry = [i \in 0..(in[3] - 1) |-> Palette[k + 1][(i % 4) + 1]]
  /\ pc = "idle"
  /\ options = DefaultOptions
  /\ ctxOk = FALSE
  /\ result = <<>>
  /\ filmBaseColor = <<>>
  /\ sampled = <<>>
  /\ divisions = 0
  /\ nrStrength = <<>>
  /\ noiseCalls = <<>>
  /\ call = <<>>
  /\ ret = <<>>
  /\ Unmounted

NextInvalid ==
  \E opts \in OptionSet, gotContext \in BOOLEAN : Convert(opts, gotContext)

SpecInvalid == InitInvalid /\ [][NextInvalid]_vars

-----------------------------------------------------------------------------
(* The state machine of the functions called on their own *)

\* The five stages of one pixel (lines 103-164), each kept.
StagesToCyan(s1, s2, s3, s4, opts) ==
  [inverted |-> s1, subtracted |-> s2, curved |-> s3, contrasted |-> s4,
   corrected |-> CyanCorrection(s4, opts)]
StagesToContrast(s1, s2, s3, opts) ==
  StagesToCyan(s1, s2, s3, Contrast(s3, opts), opts)
StagesToCurves(s1, s2, opts) ==
  StagesToContrast(s1, s2, ChannelCurves(s2, opts), opts)
StagesToBase(s1, base, opts) ==
  StagesToCurves(s1, SubtractBase(s1, base, opts), opts)
Stages(px, base, opts) == StagesToBase(Invert(px), base, opts)

MaxValue == 255

\* Channel values: every tenth from 0 to 255.
CurveValues == {Rat(k, 10) : k \in 0..(10 * MaxValue)}

\* Strengths from 0 to 2, with one just above 0.
AdjustStrengths == {Zero, <<1, 1000>>, <<7, 10>>, <<4, 5>>, One, Num(2)}
SCurveStrengths == {Zero, <<1, 1000>>, One, <<11, 10>>, Num(2)}

\* Options of the pixel loop within their documented ranges.
RangeOptions ==
  {[DefaultOptions EXCEPT !.baseSubtractionOpacity = o,
                          !.channelAdjustments = ca,
                          !.contrastBoost = cb,
                          !.cyanAdjustment = cy] :
     o \in {Zero, Half, One},
     ca \in {NeutralCurves, DefaultOptions.channelAdjustments,
             [r |-> Num(2), g |-> One, b |-> Zero]},
     cb \in {One, <<11, 10>>, Num(2)},
     cy \in {DefaultOptions.cyanAdjustment,
             [hue |-> Num(180), saturation |-> Num(2), lightness |-> One],
             [hue |-> Num(-180), saturation |-> Zero, lightness |-> Num(-1)]}}

\* Channel levels of the colours converted to HSL and back.
ColourLevels == {0, 1, 2, 50, 100, 110, 127, 128, 150, 200, 254, 255}

\* Values of baseSubtractionOpacity from 0 to 1.
Opacities == {Zero, <<1, 1000>>, <<1, 4>>, Half, <<4, 5>>, One}

Calls ==
  {[fn |-> "adjustChannelCurve", args |-> <<v, st>>] :
     v \in CurveValues, st \in AdjustStrengths}
  \cup {[fn |-> "applySCurve", args |-> <<v, st>>] :
     v \in CurveValues, st \in SCurveStrengths}
  \cup {[fn |-> "pixel", args |-> <<Palette[k], base, opts>>] :
     k \in 1..Len(Palette), base \in {DefaultBase, ManualBase},
     opts \in RangeOptions}
  \cup {[fn |-> "rgbToHsl", args |-> <<r, g, b>>] :
     r \in ColourLevels, g \in ColourLevels, b \in ColourLevels}
  \cup {[fn |-> "subtractAmount", args |-> <<c, base, o>>] :
     c \in ColourLevels, base \in ColourLevels, o \in Opacities}

\* No image is being converted.
InitFn ==
  /\ call \in Calls
  /\ ret = <<>>
  /\ heap = <<>>
  /\ image = [width |-> 0, height |-> 0, data |-> 0]
  /\ entry = <<>>
  /\ pc = "idle"
  /\ options = DefaultOptions
  /\ ctxOk = FALSE
  /\ result = <<>>
  /\ filmBaseColor = <<>>
  /\ sampled = <<>>
  /\ divisions = 0
  /\ nrStrength = <<>>
  /\ noiseCalls = <<>>
  /\ Unmounted

Returns(value) ==
  /\ ret' = Append(ret, value)
  /\ UNCHANGED <<heap, image, entry, pc, options, ctxOk, result,
                 filmBaseColor, sampled, divisions, nrStrength, noiseCalls,
                 call, uiVars, dlVars>>

\* The call adjustChannelCurve(value, strength).
AdjustChannelCurve ==
  /\ call.fn = "adjustChannelCurve"
  /\ ret = <<>>
  /\ Returns(adjustChannelCurve(call.args[1], call.args[2]))

\* The call applySCurve(value, strength).
ApplySCurve ==
  /\ call.fn = "applySCurve"
  /\ ret = <<>>
  /\ Returns(applySCurve(call.args[1], call.args[2]))

\* One iteration of the pixel loop, up to the store.
PixelStages ==
  /\ call.fn = "pixel"
  /\ ret = <<>>
  /\ Returns(Stages(call.args[1], call.args[2], call.args[3]))

\* The call rgbToHsl(r, g, b).
RgbToHsl ==
  /\ call.fn = "rgbToHsl"
  /\ ret = <<>>
  /\ Returns(rgbToHsl(Num(call.args[1]), Num(call.args[2]), Num(call.args[3])))

\* The call hslToRgb(h, s, l) on the value rgbToHsl returned.
HslToRgb ==
  /\ call.fn = "rgbToHsl"
  /\ Len(ret) = 1
  /\ Returns(hslToRgb(ret[1].h, ret[1].s, ret[1].l))

\* Steps 1 and 2 for one channel c of a pixel: subtractAmount(255 - c, base).
SubtractAmount ==
  /\ call.fn = "subtractAmount"
  /\ ret = <<>>
  /\ Returns(subtractAmount(Num(255 - call.args[1]), call.args[2],
                            call.args[3]))

NextFn ==
  \/ SubtractAmount
  \/ AdjustChannelCurve
  \/ ApplySCurve
  \/ PixelStages
  \/ RgbToHsl
  \/ HslToRgb

SpecFn == InitFn /\ [][NextFn]_vars

-----------------------------------------------------------------------------
(* The state machine of the React components: the hook useImageProcessing
   and the page routes/_index.tsx *)

\* The calls and timers in flight at one time.
MaxCalls == 2

\* Data URLs of uploaded images and colours picked with the dropper.
Images == {1, 2}
PickedColours == {1}
ProcessingTypes == {"none", "negative-conversion"}

convVars == <<heap, image, entry, pc, options, ctxOk, result, filmBaseColor,
              sampled, divisions, nrStrength, noiseCalls, call, ret, dlVars>>

\* The component has mounted; its effect runs once after the first render.
InitUI ==
  /\ ui \in {"hook", "page"}
  /\ effectDue = TRUE
  /\ InitialState
  /\ heap = <<>>
  /\ image = [width |-> 0, height |-> 0, data |-> 0]
  /\ entry = <<>>
  /\ pc = "idle"
  /\ options = DefaultOptions
  /\ ctxOk = FALSE
  /\ result = <<>>
  /\ filmBaseColor = <<>>
  /\ sampled = <<>>
  /\ divisions = 0
  /\ nrStrength = <<>>
  /\ noiseCalls = <<>>
  /\ call = <<>>
  /\ ret = <<>>

\* The dependency list of the processing effect, conversionOptions apart.
Deps ==
  <<originalImage, processingType, useBorderSampling, useManualSelection,
    isColorPickerActive>>

\* Fewer than MaxCalls calls and timers are in flight.
SlotFree == BagCardinality(pending) + Len(timers) < MaxCalls

\* The calls that have not settled, and those the step starts.
Pending == BagToSet(pending)
Started == {c \in BagToSet(pending') : CopiesIn(c, pending') > CopiesIn(c, pending)}

\* applyProcessing from `try` to the await of processImage.  With type
\* "none" the three state updates are batched and isProcessing ends false.
applyProcessing(opts) ==
  IF processingType = "none"
    THEN /\ processedImage' = <<"url", originalImage[1]>>
         /\ isProcessing' = FALSE
         /\ UNCHANGED pending
    ELSE /\ SlotFree
         /\ pending' = pending (+) SetToBag(
              {[origin |-> "effect", url |-> originalImage[1],
                type |-> processingType, opts |-> opts]})
         /\ isProcessing' = TRUE
         /\ UNCHANGED processedImage

\* A faulty variant: the stored filmBaseColor is passed whatever the toggles.
HookEffectKeepingColour ==
  /\ ui = "hook"
  /\ effectDue
  /\ effectDue' = FALSE
  /\ IF originalImage = <<>>
       THEN /\ processedImage' = <<>>
            /\ UNCHANGED <<isProcessing, pending>>
     ELSE IF isColorPickerActive
       THEN UNCHANGED <<processedImage, isProcessing, pending>>
     ELSE applyProcessing(
            [useBorderSampling |-> useBorderSampling /\ ~useManualSelection,
             filmBaseColor |-> <<conversionOptions.filmBaseColor>>])
  /\ UNCHANGED <<ui, originalImage, processingType, useBorderSampling,
                 useManualSelection, isColorPickerActive, conversionOptions,
                 timers, convVars>>

\* useImageProcessing.ts lines 24-74: the effect.
HookEffect ==
  /\ ui = "hook"
  /\ effectDue
  /\ effectDue' = FALSE
  /\ IF originalImage = <<>>
       THEN /\ processedImage' = <<>>
            /\ UNCHANGED <<isProcessing, pending>>
     ELSE IF isColorPickerActive
       THEN UNCHANGED <<processedImage, isProcessing, pending>>
     ELSE applyProcessing(
            [useBorderSampling |-> useBorderSampling /\ ~useManualSelection,
             filmBaseColor |-> IF useManualSelection
                                 THEN <<conversionOptions.filmBaseColor>>
                                 ELSE <<>>])
  /\ UNCHANGED <<ui, originalImage, processingType, useBorderSampling,
                 useManualSelection, isColorPickerActive, conversionOptions,
                 timers, convVars>>

\* _index.tsx lines 34-85: the effect.
PageEffect ==
  /\ ui = "page"
  /\ effectDue
  /\ effectDue' = FALSE
  /\ IF isColorPickerActive \/ originalImage = <<>>
       THEN UNCHANGED <<processedImage, isProcessing, pending>>
       ELSE applyProcessing(
              [useBorderSampling |-> useBorderSampling /\ ~useManualSelection,
               filmBaseColor |-> <<conversionOptions.filmBaseColor>>])
  /\ UNCHANGED <<ui, originalImage, processingType, useBorderSampling,
                 useManualSelection, isColorPickerActive, conversionOptions,
                 timers, convVars>>

\* The page renders its controls only with an image and the negative
\* conversion selected (lines 223 and 233); the hook has no such condition.
ControlsShown ==
  ui = "page" => originalImage # <<>> /\ processingType = "negative-conversion"

\* reader.onload of handleFileChange.
handleFileChange(img) ==
  /\ ~effectDue
  /\ originalImage' = <<img>>
  /\ effectDue' = (originalImage # <<img>>)
  /\ UNCHANGED <<ui, processedImage, processingType, isProcessing,
                 useBorderSampling, useManualSelection, isColorPickerActive,
                 conversionOptions, pending, timers, convVars>>

\* setProcessingType (hook) and handleProcessingChange (page, line 108).
handleProcessingChange(newType) ==
  /\ ~effectDue
  /\ ui = "page" => originalImage # <<>>
  /\ processingType' = newType
  /\ effectDue' = (processingType # newType)
  /\ UNCHANGED <<ui, originalImage, processedImage, isProcessing,
                 useBorderSampling, useManualSelection, isColorPickerActive,
                 conversionOptions, pending, timers, convVars>>

\* setUseBorderSampling (hook) and handleBorderSamplingToggle (page, line
\* 113); the page's ToggleSwitch passes !checked.
handleBorderSamplingToggle(checked) ==
  /\ ~effectDue
  /\ ControlsShown
  /\ ui = "page" => checked = ~useBorderSampling
  /\ useBorderSampling' = checked
  /\ useManualSelection' =
       IF ui = "page" /\ checked THEN FALSE ELSE useManualSelection
  /\ UNCHANGED <<ui, originalImage, processedImage, processingType,
                 isProcessing, isColorPickerActive, conversionOptions,
                 pending, timers, convVars>>
  /\ effectDue' = (Deps' # Deps)

\* handleManualSelectionToggle (hook line 95, page line 120).
handleManualSelectionToggle(checked) ==
  /\ ~effectDue
  /\ ControlsShown
  /\ ui = "page" => checked = ~useManualSelection
  /\ useManualSelection' = checked
  /\ useBorderSampling' = IF checked THEN FALSE ELSE useBorderSampling
  /\ isColorPickerActive' = checked
  /\ UNCHANGED <<ui, originalImage, processedImage, processingType,
                 isProcessing, conversionOptions, pending, timers,
                 convVars>>
  /\ effectDue' = (Deps' # Deps)

\* setIsColorPickerActive(true): the page's "Pick Film Border Color" button
\* (line 262), shown with manual selection on and the picker inactive; the
\* hook exposes the setter.
PickFilmBorderColor ==
  /\ ~effectDue
  /\ ControlsShown
  /\ ui = "page" => useManualSelection /\ ~isColorPickerActive
  /\ isColorPickerActive' = TRUE
  /\ UNCHANGED <<ui, originalImage, processedImage, processingType,
                 isProcessing, useBorderSampling, useManualSelection,
                 conversionOptions, pending, timers, convVars>>
  /\ effectDue' = (Deps' # Deps)

\* The options handleColorPickerComplete gives to processImage: those of the
\* render in which the handler was created.
TimerOf ==
  [origin |-> "pick", url |-> originalImage[1],
   type |-> processingType,
   opts |-> [useBorderSampling |-> FALSE,
             filmBaseColor |-> <<conversionOptions.filmBaseColor>>]]

\* ColorDropper.handleClick: onColorSelected(previewColor); onComplete().
\* The page's handleColorSelected also sets isProcessing, and its
\* handleColorPickerComplete sets a timer when manual selection is on.
handleClick(color) ==
  /\ ~effectDue
  /\ isColorPickerActive
  /\ originalImage # <<>>
  /\ conversionOptions' = [conversionOptions EXCEPT !.filmBaseColor = color]
  /\ isColorPickerActive' = FALSE
  /\ IF ui = "page"
       THEN /\ isProcessing' = TRUE
            /\ IF useManualSelection
                 THEN /\ SlotFree
                      /\ timers' = Append(timers, TimerOf)
                 ELSE UNCHANGED timers
       ELSE UNCHANGED <<isProcessing, timers>>
  /\ effectDue' = TRUE
  /\ UNCHANGED <<ui, originalImage, processedImage, processingType,
                 useBorderSampling, useManualSelection, pending, convVars>>

\* The callback of setTimeout(..., 100) in handleColorPickerComplete calls
\* processImage.
TimerFires ==
  /\ timers # <<>>
  /\ timers' = Tail(timers)
  /\ pending' = pending (+) SetToBag({Head(timers)})
  /\ UNCHANGED <<ui, originalImage, processedImage, processingType,
                 isProcessing, useBorderSampling, useManualSelection,
                 isColorPickerActive, conversionOptions, effectDue,
                 convVars>>

\* What processImage resolves to: the converted image, or the URL itself for
\* any other processing type.
Processed(c) ==
  IF c.type = "negative-conversion"
    THEN <<"converted", c.url, c.opts>>
    ELSE <<"url", c.url>>

\* The colours behind the values of conversionOptions.filmBaseColor: 0 is the
\* colour of the initial options, the others are colours clicked in the
\* dropper.
ColourOf(k) ==
  CASE k = 0 -> [r |-> 220, g |-> 150, b |-> 130]
    [] k = 1 -> [r |-> 200, g |-> 120, b |-> 100]

\* The pixels of the uploaded images, 2 x 2 each.
PixelsOf(url) ==
  CASE url = 1 -> <<230, 160, 140, 255>>
    [] url = 2 -> <<210, 130, 90, 255>>

\* The canvas processImage draws the image on (drawImage, getImageData) and
\* convertNegativeToPositive puts it back on.
Decoded(url) ==
  [width |-> 2, height |-> 2,
   bitmap |-> [i \in 0..15 |-> PixelsOf(url)[(i % 4) + 1]]]

\* The film base colour convertNegativeToPositive settles on in the call c.
BaseUsed(c) ==
  FilmBase([useBorderSampling |-> c.opts.useBorderSampling,
            filmBaseColor |-> IF c.opts.filmBaseColor = <<>> THEN <<>>
                              ELSE <<ColourOf(c.opts.filmBaseColor[1])>>],
           Decoded(c.url))

\* The image set when the call c fails: the effect's catch sets the
\* originalImage of its render; the catch of the call made after a colour
\* pick (lines 162-165) sets none.
Fallback(c) ==
  IF c.origin = "effect" THEN <<"url", c.url>> ELSE processedImage

\* processImage resolves: img.onload ran to resolve(...).
Resolves(c) ==
  /\ BagIn(c, pending)
  /\ pending' = pending (-) SetToBag({c})
  /\ processedImage' = Processed(c)
  /\ isProcessing' = FALSE
  /\ UNCHANGED <<ui, originalImage, processingType, useBorderSampling,
                 useManualSelection, isColorPickerActive, conversionOptions,
                 effectDue, timers, convVars>>

\* processImage rejects: img.onerror, or no canvas context.
Rejects(c) ==
  /\ BagIn(c, pending)
  /\ pending' = pending (-) SetToBag({c})
  /\ processedImage' = Fallback(c)
  /\ isProcessing' = FALSE
  /\ UNCHANGED <<ui, originalImage, processingType, useBorderSampling,
                 useManualSelection, isColorPickerActive, conversionOptions,
                 effectDue, timers, convVars>>

NextUI ==
  \/ HookEffect
  \/ PageEffect
  \/ \E img \in Images : handleFileChange(img)
  \/ \E newType \in ProcessingTypes : handleProcessingChange(newType)
  \/ \E checked \in BOOLEAN : handleBorderSamplingToggle(checked)
  \/ \E checked \in BOOLEAN : handleManualSelectionToggle(checked)
  \/ PickFilmBorderColor
  \/ \E color \in PickedColours : handleClick(color)
  \/ TimerFires
  \/ \E c \in Pending : Resolves(c)
  \/ \E c \in Pending : Rejects(c)

SpecUI == InitUI /\ [][NextUI]_vars

-----------------------------------------------------------------------------
(* The state machine of the hook useDownloadManager *)

\* The downloads in progress at one time.
MaxDownloads == 2

\* The hook has mounted; no image is being converted.
InitDownload ==
  /\ ui = "download"
  /\ effectDue = FALSE
  /\ InitialState
  /\ heap = <<>>
  /\ image = [width |-> 0, height |-> 0, data |-> 0]
  /\ entry = <<>>
  /\ pc = "idle"
  /\ options = DefaultOptions
  /\ ctxOk = FALSE
  /\ result = <<>>
  /\ filmBaseColor = <<>>
  /\ sampled = <<>>
  /\ divisions = 0
  /\ nrStrength = <<>>
  /\ noiseCalls = <<>>
  /\ call = <<>>
  /\ ret = <<>>

\* Line 25: prev + (100 - prev) * 0.1, over the denominator of prev.
newProgress(prev) == Rat(9 * prev[1] + 100 * prev[2], 10 * prev[2])

\* downloadFile(url, filename), lines 9-50: the state is set, the interval
\* and the first timer are started.  Without a window it returns at once.
downloadFile(hasWindow) ==
  /\ Len(downloads) < MaxDownloads
  /\ IF hasWindow
       THEN /\ isDownloading' = TRUE
            /\ downloadProgress' = Zero
            /\ downloads' = Append(downloads,
                               [timer |-> "complete", interval |-> TRUE])
       ELSE UNCHANGED dlVars
  /\ UNCHANGED <<heap, image, entry, pc, options, ctxOk, result,
                 filmBaseColor, sampled, divisions, nrStrength, noiseCalls,
                 call, ret, uiVars>>

\* The callback of setInterval(..., 100) of the download d, lines 23-33.
IntervalTick(d) ==
  /\ downloads[d].interval
  /\ IF ~RLt(newProgress(downloadProgress), Num(99))
       THEN /\ downloadProgress' = Num(100)
            /\ downloads' = [downloads EXCEPT ![d].interval = FALSE]
       ELSE /\ downloadProgress' = newProgress(downloadProgress)
            /\ UNCHANGED downloads
  /\ UNCHANGED <<isDownloading, heap, image, entry, pc, options, ctxOk,
                 result, filmBaseColor, sampled, divisions, nrStrength,
                 noiseCalls, call, ret, uiVars>>

\* The callback of the first setTimeout(..., 1000), lines 38-45.  Timers of
\* equal delay fire in the order they were set: d is the earliest download
\* whose first timer has not fired.
CompleteTimer(d) ==
  /\ downloads[d].timer = "complete"
  /\ \A e \in 1..(d - 1) : downloads[e].timer # "complete"
  /\ downloadProgress' = Num(100)
  /\ downloads' = [downloads EXCEPT ![d] = [timer |-> "reset",
                                            interval |-> FALSE]]
  /\ UNCHANGED <<isDownloading, heap, image, entry, pc, options, ctxOk,
                 result, filmBaseColor, sampled, divisions, nrStrength,
                 noiseCalls, call, ret, uiVars>>

\* The callback of the second setTimeout(..., 1000), lines 41-44, of the
\* earliest download.
ResetTimer ==
  /\ downloads # <<>>
  /\ Head(downloads).timer = "reset"
  /\ isDownloading' = FALSE
  /\ downloadProgress' = Zero
  /\ downloads' = Tail(downloads)
  /\ UNCHANGED <<heap, image, entry, pc, options, ctxOk, result,
                 filmBaseColor, sampled, divisions, nrStrength, noiseCalls,
                 call, ret, uiVars>>

NextDownload ==
  \/ \E hasWindow \in BOOLEAN : downloadFile(hasWindow)
  \/ \E d \in DOMAIN downloads : IntervalTick(d)
  \/ \E d \in DOMAIN downloads : CompleteTimer(d)
  \/ ResetTimer

SpecDownload == InitDownload /\ [][NextDownload]_vars

-----------------------------------------------------------------------------
(* Properties of convertNegativeToPositive: result and buffers *)

\* The call has returned after obtaining a drawing context.
Converted == pc = "returned" /\ ctxOk
\* The call got as far as the film base colour (lines 48-91).
BaseChosen == pc \in {"returned", "threw"} /\ ctxOk

Pixels == 0..(image.width * image.height - 1)
OutputData == heap[result[1].data]
InputPixel(p) == PixelAt(entry, p)
OutputPixel(p) == PixelAt(OutputData, p)

\* The working canvas after putImageData of the caller's image.
InputCanvas ==
  [width |-> image.width, height |-> image.height,
   bitmap |-> putImageData(entry)]

\* C1: for every input image and every options value, the image returned by
\* convertNegativeToPositive has the width and height of the input, and the
\* alpha byte of every output pixel equals the alpha byte of the same pixel of
\* the input, also when the input alpha is not 255.
C1_SizeAndAlphaOfInput ==
  pc = "returned" =>
    /\ result[1].width = image.width
    /\ result[1].height = image.height
    /\ \A p \in Pixels : OutputPixel(p)[4] = InputPixel(p)[4]

-----------------------------------------------------------------------------
(* Properties of the film base colour *)

RECURSIVE SumOfSamples(_, _, _)
SumOfSamples(canvas, coords, c) ==
  IF coords = <<>> THEN 0
  ELSE getPixel(canvas, Head(coords)[1], Head(coords)[2])[c]
       + SumOfSamples(canvas, Tail(coords), c)

\* The border estimate: the rounded mean of the pixels sampled, or the
\* default when there is none.
BorderEstimate ==
  IF sampled = <<>> THEN DefaultBase
  ELSE [r |-> MathRound(Rat(SumOfSamples(InputCanvas, sampled, 1), Len(sampled))),
        g |-> MathRound(Rat(SumOfSamples(InputCanvas, sampled, 2), Len(sampled))),
        b |-> MathRound(Rat(SumOfSamples(InputCanvas, sampled, 3), Len(sampled)))]

\* The base colour the precedence rule selects.
BaseByPrecedence ==
  IF options.filmBaseColor # <<>> THEN options.filmBaseColor[1]
  ELSE IF options.useBorderSampling THEN BorderEstimate
  ELSE DefaultBase

\* C3: the effective film base colour is chosen by strict precedence:
\* options.filmBaseColor if present, verbatim and without sampling any border
\* pixel whatever useBorderSampling says; otherwise the border estimate if
\* useBorderSampling is true; otherwise {220,150,130}.  The pixel loop uses
\* that colour.
C3_BasePrecedence ==
  /\ BaseChosen =>
       /\ filmBaseColor = <<BaseByPrecedence>>
       /\ options.filmBaseColor # <<>> => sampled = <<>>
       /\ ~options.useBorderSampling => sampled = <<>>
       /\ (options.filmBaseColor = <<>> /\ ~options.useBorderSampling)
            => filmBaseColor = <<[r |-> 220, g |-> 150, b |-> 130]>>
  /\ Converted =>
       OutputData = PixelLoop(InputCanvas.bitmap, BaseByPrecedence, options)

\* A conversion given both a filmBaseColor and useBorderSampling = true has
\* used the given colour and sampled nothing.
C3_Witness ==
  /\ Converted
  /\ options.filmBaseColor = <<ManualBase>>
  /\ options.useBorderSampling
  /\ filmBaseColor = <<ManualBase>>
  /\ sampled = <<>>
  /\ image.width * image.height >= 2

IsUniform(data) ==
  \A i \in DOMAIN data : data[i] = data[i % 4]

BorderSampled ==
  BaseChosen /\ options.useBorderSampling /\ options.filmBaseColor = <<>>

\* C4: with useBorderSampling true and no filmBaseColor, for every image of
\* width >= 50 and height >= 50 whose pixels all have the same colour
\* (r,g,b), the estimated film base colour is exactly (r,g,b).
C4_UniformEstimateExact ==
  (BorderSampled /\ image.width >= 50 /\ image.height >= 50 /\ IsUniform(entry))
    => filmBaseColor = <<[r |-> entry[0], g |-> entry[1], b |-> entry[2]]>>

\* 0, 10, 20, ... below n
Strided(n) == [k \in 1..((n + 9) \div 10) |-> 10 * (k - 1)]

\* The coordinates of the four edges in the order top, bottom, left, right,
\* the left and right edges ending at the height.
EdgeCoordinates(w, h) ==
  [k \in 1..Len(Strided(w)) |-> <<Strided(w)[k], 0>>]
  \o [k \in 1..Len(Strided(w)) |-> <<Strided(w)[k], h - 1>>]
  \o [k \in 1..Len(Strided(h)) |-> <<0, Strided(h)[k]>>]
  \o [k \in 1..Len(Strided(h)) |-> <<w - 1, Strided(h)[k]>>]

FirstOf(s, n) == SubSeq(s, 1, Min(n, Len(s)))

\* C5: the coordinates read by border sampling are the first 50 (or all, if
\* fewer) of: top edge (x,0) for x = 0,10,20,... < width; bottom edge
\* (x,height-1) for the same x; left edge (0,y) for y = 0,10,20,... < height;
\* right edge (width-1,y) for the same y.  Every sampled coordinate lies
\* inside the image.
C5_SamplesAlongEdges ==
  BorderSampled =>
    /\ sampled = FirstOf(EdgeCoordinates(image.width, image.height), 50)
    /\ \A k \in 1..Len(sampled) :
         /\ sampled[k][1] \in 0..(image.width - 1)
         /\ sampled[k][2] \in 0..(image.height - 1)

\* C6: when border sampling is requested and collects zero samples, no
\* division by the sample count happens and the film base colour stays the
\* default {220,150,130}.
C6_NoSamplesNoDivision ==
  (BorderSampled /\ sampled = <<>>) =>
    /\ divisions = 0
    /\ filmBaseColor = <<[r |-> 220, g |-> 150, b |-> 130]>>

\* Border sampling of an image of width 0 and height 2 has collected nothing.
C6_Witness ==
  /\ BorderSampled
  /\ sampled = <<>>
  /\ image.width = 0
  /\ image.height = 2
  /\ filmBaseColor = <<DefaultBase>>

-----------------------------------------------------------------------------
(* Properties of the per-pixel stages *)

\* r, g, b of pixel p as stage 4 leaves them.
StageFour(p) == AfterContrast(InputPixel(p), filmBaseColor[1], options)

\* What the loop stores for pixel p when stage 5 keeps the values v.
KeepsValues(p, v) ==
  /\ OutputPixel(p)[1] = ToUint8Clamp(v.r)
  /\ OutputPixel(p)[2] = ToUint8Clamp(v.g)
  /\ OutputPixel(p)[3] = ToUint8Clamp(v.b)

Hue(v) == rgbToHsl(v.r, v.g, v.b).h

\* g > r, b > r, |g-b| < 50, (g+b)/2 > 1.3 r, g > 100, b > 100 and
\* 150 < hue < 210.
StrictGates(v) ==
  /\ RLt(v.r, v.g)
  /\ RLt(v.r, v.b)
  /\ RLt(RAbs(RSub(v.g, v.b)), Num(50))
  /\ RLt(RMul(<<13, 10>>, v.r), RDiv(RAdd(v.g, v.b), Num(2)))
  /\ RLt(Num(100), v.g)
  /\ RLt(Num(100), v.b)
  /\ RLt(Num(150), Hue(v))
  /\ RLt(Hue(v), Num(210))

\* channelAdjustments 1/1/1, contrastBoost 1.0, baseSubtractionOpacity 0, the
\* other options at their defaults.
PlainInversionOptions ==
  [DefaultOptions EXCEPT !.baseSubtractionOpacity = Zero,
                         !.channelAdjustments = NeutralCurves,
                         !.contrastBoost = One]

IsInverse(p) ==
  /\ OutputPixel(p)[1] = 255 - InputPixel(p)[1]
  /\ OutputPixel(p)[2] = 255 - InputPixel(p)[2]
  /\ OutputPixel(p)[3] = 255 - InputPixel(p)[3]

-----------------------------------------------------------------------------
(* Properties of applyNoiseReduction *)

Filtered == pc = "filtered"
Columns == 0..(image.width - 1)
Rows == 0..(image.height - 1)
IsInterior(x, y) ==
  /\ 1 <= x /\ x <= image.width - 2
  /\ 1 <= y /\ y <= image.height - 2
Offset(x, y) == (y * image.width + x) * 4

\* C9: applyNoiseReduction leaves unchanged every byte of every pixel in row
\* 0, row height-1, column 0 and column width-1, and the alpha byte of every
\* pixel, for every width, height and strength.
C9_BorderAndAlphaKept ==
  Filtered =>
    \A x \in Columns, y \in Rows :
      /\ heap[image.data][Offset(x, y) + 3] = entry[Offset(x, y) + 3]
      /\ ~IsInterior(x, y) =>
           \A c \in 0..3 :
             heap[image.data][Offset(x, y) + c] = entry[Offset(x, y) + c]

\* A pass with a positive strength over an image with interior pixels has
\* changed the buffer.
C9_Witness ==
  /\ Filtered
  /\ image.width >= 3
  /\ image.height >= 3
  /\ nrStrength # Zero
  /\ heap[image.data] # entry
  /\ \E x \in Columns, y \in Rows :
       IsInterior(x, y) /\ entry[Offset(x, y) + 3] # 255

\* The mean of the four neighbours of byte i before the pass.
NeighbourMean(i) ==
  Rat(entry[i - image.width * 4] + entry[i + image.width * 4]
      + entry[i - 4] + entry[i + 4], 4)

\* C10: after applyNoiseReduction every interior pixel's R, G, B equals
\* round((1-strength)*orig + strength*avg), orig being the channel's value
\* before the pass and avg the mean of the top, bottom, left and right
\* neighbours' values before the pass.
C10_BlendOfSnapshot ==
  Filtered =>
    \A x \in Columns, y \in Rows, c \in 0..2 :
      IsInterior(x, y) =>
        heap[image.data][Offset(x, y) + c] =
          MathRound(RAdd(RMul(RSub(One, nrStrength), Num(entry[Offset(x, y) + c])),
                         RMul(nrStrength, NeighbourMean(Offset(x, y) + c))))

\* A pass over an image with two adjacent interior pixels has changed the
\* first of them, a neighbour of the second.
C10_Witness ==
  /\ Filtered
  /\ image.width >= 4
  /\ image.height >= 3
  /\ nrStrength = Half
  /\ \E c \in 0..2 : heap[image.data][Offset(1, 1) + c] # entry[Offset(1, 1) + c]
  /\ \E c \in 0..2 : heap[image.data][Offset(2, 1) + c] # entry[Offset(2, 1) + c]

-----------------------------------------------------------------------------
(* Properties of the noise-reduction pass inside convertNegativeToPositive *)

\* The call reached lines 174-177.
PastPixelLoop == Converted \/ pc = "sized"
IsLarge == image.width > 200 /\ image.height > 200

-----------------------------------------------------------------------------
(* Properties of the tone curves *)

Returned(fn) == call.fn = fn /\ ret # <<>>
IsInteger(v) == v[2] = 1

\* C12: adjustChannelCurve(v, 1.0) = v for every integer v in 0..255, and in
\* the pixel loop a channel whose strength is exactly 1.0 leaves stage 3 with
\* the value it entered with.
C12_NeutralCurveIsIdentity ==
  /\ Returned("adjustChannelCurve") /\ call.args[2] = One
       /\ IsInteger(call.args[1])
       => ret[1] = call.args[1][1]
  /\ Returned("pixel") =>
       \A c \in {"r", "g", "b"} :
         call.args[3].channelAdjustments[c] = One
           => ret[1].curved[c] = ret[1].subtracted[c]
C12_Witness ==
  /\ Returned("pixel")
  /\ call.args[3].channelAdjustments.g = One
  /\ ~IsInteger(ret[1].subtracted.g)
  /\ ret[1].curved.g = ret[1].subtracted.g

\* C13: applySCurve(v, 1.0) is the identity within rounding: for every v in
\* 0..255 the result differs from v by at most 1.
C13_NeutralSCurveWithinOne ==
  Returned("applySCurve") /\ call.args[2] = One /\ IsInteger(call.args[1])
    => Abs(ret[1] - call.args[1][1]) <= 1

\* C14: for every value in [0,255] and every strength in [0,2], strength 0
\* and strengths just above 0 included, adjustChannelCurve and applySCurve
\* return a finite integer in [0,255].
C14_CurvesStayInRange ==
  Returned("adjustChannelCurve") \/ Returned("applySCurve")
    => ret[1] \in 0..255
C14_Witness ==
  /\ Returned("adjustChannelCurve")
  /\ call.args = <<Num(255), Zero>>
  /\ ret = <<255>>

-----------------------------------------------------------------------------
(* Properties of rgbToHsl and hslToRgb *)

\* C15: for every integer (r, g, b) in [0,255]^3, hslToRgb(rgbToHsl(r, g, b))
\* differs from (r, g, b) by at most 1 in each channel.
C15_HslRoundTripWithinOne ==
  call.fn = "rgbToHsl" /\ Len(ret) = 2 =>
    /\ Abs(ret[2].r - call.args[1]) <= 1
    /\ Abs(ret[2].g - call.args[2]) <= 1
    /\ Abs(ret[2].b - call.args[3]) <= 1
C15_Witness ==
  /\ call.fn = "rgbToHsl" /\ Len(ret) = 2
  /\ call.args = <<50, 200, 254>>
  /\ ret[2] = [r |-> 50, g |-> 200, b |-> 254]

\* C16: rgbToHsl returns 0 <= h < 360 and s, l in [0,1], and h = 0 and
\* s = 0 whenever r = g = b.
C16_HslInRange ==
  call.fn = "rgbToHsl" /\ Len(ret) >= 1 =>
    /\ ~RLt(ret[1].h, Zero) /\ RLt(ret[1].h, Num(360))
    /\ ~RLt(ret[1].s, Zero) /\ ~RGt(ret[1].s, One)
    /\ ~RLt(ret[1].l, Zero) /\ ~RGt(ret[1].l, One)
    /\ (call.args[1] = call.args[2] /\ call.args[2] = call.args[3]
          => ret[1].h = Zero /\ ret[1].s = Zero)
C16_Witness ==
  /\ call.fn = "rgbToHsl" /\ Len(ret) = 1
  /\ call.args = <<255, 0, 1>>
  /\ RGt(ret[1].h, Num(359))

-----------------------------------------------------------------------------
(* Properties of convertNegativeToPositive: failures *)

\* C17: if no drawing context can be obtained, the call returns the input
\* image itself, unchanged, without raising an error and without sampling or
\* transforming any pixel.
C17_NoContextReturnsInput ==
  pc \in {"returned", "threw"} /\ ~ctxOk =>
    /\ pc = "returned"
    /\ result = <<image>>
    /\ heap = <<entry>>
    /\ sampled = <<>> /\ divisions = 0 /\ filmBaseColor = <<>>
    /\ noiseCalls = <<>>
C17_Witness ==
  /\ pc = "returned" /\ ~ctxOk
  /\ image.width = 2 /\ image.height = 2
  /\ options.useBorderSampling
  /\ result = <<image>>

\* C18: when the length of the input buffer is not width * height * 4, the
\* call is rejected with an error, no byte outside the buffer is read, and no
\* image is returned.
C18_InvalidBufferRejected ==
  pc # "idle"
  /\ Cardinality(DOMAIN entry) # image.width * image.height * 4
    => pc = "rejected" /\ result = <<>> /\ sampled = <<>>

-----------------------------------------------------------------------------
(* Properties of the stages of the pixel loop *)

InChannelRange(v) ==
  \A c \in {"r", "g", "b"} : ~RLt(v[c], Zero) /\ ~RGt(v[c], Num(255))

\* C19: for every pixel and every options value within the documented ranges
\* the r, g, b held at the end of each of stages 1 to 5 are within [0,255],
\* the values returned by hslToRgb in the cyan correction included.
C19_StagesWithinRange ==
  Returned("pixel") =>
    /\ InChannelRange(ret[1].inverted)
    /\ InChannelRange(ret[1].subtracted)
    /\ InChannelRange(ret[1].curved)
    /\ InChannelRange(ret[1].contrasted)
    /\ InChannelRange(ret[1].corrected)

\* Channel c of the pixel, and of the film base colour, given to the loop.
ChannelOf(px, c) == CASE c = "r" -> px[1] [] c = "g" -> px[2] [] c = "b" -> px[3]

\* C22: stage 2 takes the inverted value 255 - c and leaves
\* max(0, (255 - c) - (255 - b) * opacity), which is never below 0 and never
\* above the inverted value, and is what stage 3 starts from; with opacity 1
\* a pixel of the film base colour leaves stage 2 as (0,0,0).
C22_BaseSubtraction ==
  /\ Returned("subtractAmount") =>
       /\ ret[1] = RMax(Zero, RSub(Num(255 - call.args[1]),
                                   RMul(Num(255 - call.args[2]), call.args[3])))
       /\ ~RLt(ret[1], Zero)
       /\ ~RGt(ret[1], Num(255 - call.args[1]))
       /\ (call.args[3] = One /\ call.args[1] = call.args[2]) => ret[1] = Zero
  /\ Returned("pixel") =>
    /\ \A c \in {"r", "g", "b"} :
         /\ ret[1].inverted[c] = Num(255 - ChannelOf(call.args[1], c))
         /\ ret[1].subtracted[c] =
              RMax(Zero, RSub(Num(255 - ChannelOf(call.args[1], c)),
                              RMul(Num(255 - call.args[2][c]),
                                   call.args[3].baseSubtractionOpacity)))
         /\ ~RLt(ret[1].subtracted[c], Zero)
         /\ ~RGt(ret[1].subtracted[c], ret[1].inverted[c])
    /\ ret[1].curved = ChannelCurves(ret[1].subtracted, call.args[3])
    /\ (/\ call.args[3].baseSubtractionOpacity = One
        /\ \A c \in {"r", "g", "b"} :
             ChannelOf(call.args[1], c) = call.args[2][c])
         => ret[1].subtracted = [r |-> Zero, g |-> Zero, b |-> Zero]
\* A pixel of the film base colour, not black or white, left stage 2 as
\* (0,0,0) with opacity 1.
C22_Witness ==
  /\ Returned("pixel")
  /\ call.args[3].baseSubtractionOpacity = One
  /\ \A c \in {"r", "g", "b"} :
       /\ ChannelOf(call.args[1], c) = call.args[2][c]
       /\ call.args[2][c] \in 1..254
  /\ ret[1].subtracted = [r |-> Zero, g |-> Zero, b |-> Zero]
\* With opacity 1/2 a channel left stage 2 strictly between 0 and its
\* inverted value.
C22_WitnessPartial ==
  /\ Returned("pixel")
  /\ call.args[3].baseSubtractionOpacity = Half
  /\ RGt(ret[1].subtracted.g, Zero)
  /\ RLt(ret[1].subtracted.g, ret[1].inverted.g)

\* The pixel whose stages were returned reached line 151: the three gates of
\* STEP 5 let the value leaving stage 4 through.
StrengthComputed ==
  /\ Returned("pixel")
  /\ OuterGate(ret[1].contrasted)
  /\ isCyan(ret[1].contrasted)
  /\ HueGate(rgbToHsl(ret[1].contrasted.r, ret[1].contrasted.g,
                      ret[1].contrasted.b).h)

\* C21: whenever the cyan correction computes cyanStrength, its value is in
\* [0,1].
C21_CyanStrengthInUnitRange ==
  StrengthComputed =>
    /\ ~RLt(cyanStrength(ret[1].contrasted), Zero)
    /\ ~RGt(cyanStrength(ret[1].contrasted), One)
\* A strength strictly between 0 and 1 was computed and the pixel changed.
C21_Witness ==
  /\ StrengthComputed
  /\ RGt(cyanStrength(ret[1].contrasted), Zero)
  /\ RLt(cyanStrength(ret[1].contrasted), One)
  /\ ret[1].corrected # ret[1].contrasted
\* The quotient was above 1 and the strength computed is 1.
C21_WitnessCapped ==
  /\ StrengthComputed
  /\ cyanStrength(ret[1].contrasted) = One
  /\ RGt(RSub(RMin(ret[1].contrasted.g, ret[1].contrasted.b),
              ret[1].contrasted.r), Num(100))

-----------------------------------------------------------------------------
(* Properties of the React components *)

\* C20: whenever a processImage call issued by the component fails, the
\* component sets processedImage to the original image; this holds for the
\* call issued by the processing effect and for the call issued after a
\* colour pick.
C20_FailureFallsBackToOriginal ==
  [][\A c \in Pending : Rejects(c) => processedImage' = <<"url", c.url>>]_vars

\* The border estimate of an uploaded image.
BorderEstimateOf(url) ==
  BaseFromSamples(SampleEdges(Decoded(url), 1,
    [totalR |-> 0, totalG |-> 0, totalB |-> 0,
     sampleCount |-> 0, coords |-> <<>>])).color

\* The film base colour the toggles ask for.
BaseAskedFor(url) ==
  IF useManualSelection THEN ColourOf(conversionOptions.filmBaseColor)
  ELSE IF useBorderSampling THEN BorderEstimateOf(url)
  ELSE DefaultBase

\* C23: in the useImageProcessing hook every processImage call is made with
\* useBorderSampling = (border toggle on and manual selection off) and with
\* filmBaseColor present only when manual selection is on, so that the
\* conversion uses the picked colour when manual selection is on, the border
\* estimate when only border sampling is on, and the default base colour
\* when both are off.
C23_HookOptionsFollowToggles ==
  [][ui = "hook" =>
       \A c \in Started :
         /\ c.opts.useBorderSampling
              = (useBorderSampling /\ ~useManualSelection)
         /\ (c.opts.filmBaseColor # <<>>) = useManualSelection
         /\ useManualSelection => conversionOptions.filmBaseColor \in PickedColours
         /\ BaseUsed(c).color = BaseAskedFor(c.url)]_vars
\* A call of the hook is pending that was made with both toggles on: it has
\* the picked colour and no border sampling.
C23_Witness ==
  /\ ui = "hook"
  /\ useBorderSampling /\ useManualSelection
  /\ \E c \in Pending :
       /\ ~c.opts.useBorderSampling
       /\ c.opts.filmBaseColor = <<conversionOptions.filmBaseColor>>
       /\ BaseUsed(c).color = ColourOf(conversionOptions.filmBaseColor)
       /\ BaseUsed(c).color # BorderEstimateOf(c.url)
\* A call of the hook is pending that samples the border.
C23_WitnessBorder ==
  /\ ui = "hook"
  /\ useBorderSampling /\ ~useManualSelection
  /\ \E c \in Pending :
       /\ c.opts.useBorderSampling
       /\ c.opts.filmBaseColor = <<>>
       /\ BaseUsed(c).color = BorderEstimateOf(c.url)
       /\ BaseUsed(c).color # DefaultBase

\* C24: in the page component, while "Auto Sample Film Border" is on and
\* manual selection is off, the conversion started by the processing effect
\* determines the film base colour by sampling the image border, not from a
\* stored filmBaseColor.
C24_PageSamplesBorder ==
  [][(ui = "page" /\ useBorderSampling /\ ~useManualSelection) =>
       \A c \in Started :
         c.origin = "effect" =>
           /\ BaseUsed(c).coords # <<>>
           /\ BaseUsed(c).color = BorderEstimateOf(c.url)]_vars

\* The step is a run of the processing effect.
EffectRuns == effectDue /\ ~effectDue'

\* A colour clicked in the dropper with manual selection on has started a
\* timer, and its callback calls processImage.
TimerCallStarts == timers # <<>> /\ timers' = Tail(timers)

\* C25: no processImage call is started in a state where isColorPickerActive
\* is true; the processing effect returns without converting while the colour
\* picker is active, in the hook and in the page, and starts a conversion when
\* it runs with the picker inactive.
C25_NoCallWhilePickerActive ==
  [][/\ \A c \in Started : ~isColorPickerActive
     /\ (EffectRuns /\ isColorPickerActive) => pending' = pending
     /\ (/\ EffectRuns
         /\ ~isColorPickerActive
         /\ originalImage # <<>>
         /\ processingType = "negative-conversion")
          => pending' # pending]_vars

\* The part of C25 about the processing effect alone.
EffectSuspendedWhilePicking ==
  [][/\ \A c \in Started : c.origin = "effect" => ~isColorPickerActive
     /\ (EffectRuns /\ isColorPickerActive) => pending' = pending
     /\ (/\ EffectRuns
         /\ ~isColorPickerActive
         /\ originalImage # <<>>
         /\ processingType = "negative-conversion")
          => pending' # pending]_vars

\* Every call has settled, no timer is waiting and the effect has run.
Settled == pending = EmptyBag /\ timers = <<>> /\ ~effectDue

\* C26: in the page component, after a click on a colour in the dropper with
\* manual selection on, once every pending processImage call has settled the
\* processedImage shown is the conversion computed with the clicked colour as
\* filmBaseColor (or the original image, when the conversion failed).
C26_PickedColourIsShown ==
  (/\ ui = "page"
   /\ Settled
   /\ useManualSelection
   /\ ~isColorPickerActive
   /\ conversionOptions.filmBaseColor \in PickedColours)
    => \/ processedImage =
            <<"converted", originalImage[1],
              [useBorderSampling |-> FALSE,
               filmBaseColor |-> <<conversionOptions.filmBaseColor>>]>>
       \/ processedImage = <<"url", originalImage[1]>>

\* What the hook's effect produces from the inputs of the current render when
\* its processImage call resolves.
ResultForInputs ==
  IF processingType = "none" THEN <<"url", originalImage[1]>>
  ELSE <<"converted", originalImage[1],
         [useBorderSampling |-> useBorderSampling /\ ~useManualSelection,
          filmBaseColor |-> IF useManualSelection
                              THEN <<conversionOptions.filmBaseColor>>
                              ELSE <<>>]>>

\* C27: in useImageProcessing, for any sequence of changes to the image, the
\* processing type, the toggles and the options, and any completion order of
\* the processImage calls, once all calls have settled processedImage is the
\* result for the most recent inputs (the original image, when the last call
\* failed): the result of an earlier call never overwrites that of a later
\* one.
C27_LatestResultIsShown ==
  (/\ ui = "hook"
   /\ Settled
   /\ originalImage # <<>>
   /\ ~isColorPickerActive)
    => \/ processedImage = ResultForInputs
       \/ processedImage = <<"url", originalImage[1]>>

\* C28: in useImageProcessing, isProcessing is true in every state in which
\* at least one processImage call started by the effect is still pending,
\* also when several calls overlap, and it is false once no call is pending.
C28_ProcessingWhilePending ==
  ui = "hook" => (isProcessing <=> pending # EmptyBag)

\* The second half of C28 alone: with no call pending isProcessing is false.
IdleWhenNonePending ==
  (ui = "hook" /\ pending = EmptyBag) => ~isProcessing

\* C29: after any sequence of the page's toggle and picker handlers,
\* isColorPickerActive is true only while useManualSelection is true; turning
\* on border sampling while the picker is active does not leave the picker
\* active with manual selection off.
C29_PickerOnlyWithManualSelection ==
  (ui = "page" /\ isColorPickerActive) => useManualSelection

-----------------------------------------------------------------------------
(* Properties of useDownloadManager *)

\* C30: for any sequence of downloadFile calls, isDownloading is true from
\* each call until that call's own final reset timer fires (a timer of an
\* earlier download never clears isDownloading or resets downloadProgress
\* while a later download is still running), downloadProgress stays within
\* [0,100], and after the last download's reset timer isDownloading is false
\* and downloadProgress is 0.
C30_DownloadingUntilOwnReset ==
  /\ downloads # <<>> => isDownloading
  /\ ~RLt(downloadProgress, Zero) /\ ~RGt(downloadProgress, Num(100))
  /\ downloads = <<>> => (~isDownloading /\ downloadProgress = Zero)

\* The parts of C30 that do not depend on the downloads overlapping.
ProgressInRangeAndIdleAtRest ==
  /\ ~RLt(downloadProgress, Zero) /\ ~RGt(downloadProgress, Num(100))
  /\ downloads = <<>> => (~isDownloading /\ downloadProgress = Zero)

====
